---------------------------- MODULE Spec2Model ----------------------------
(***************************************************************************)
(* State-machine model of lod-imputation-geochem: the LOD detector         *)
(* (lod_imputation/reader.py), the substitution engines and the dispatcher *)
(* (lod_imputation/imputation.py) and the log-ratio EM engine              *)
(* (lod_imputation/lrem.py).                                               *)
(*                                                                         *)
(* Numbers.  Floating-point quantities are fixed-point integers in units   *)
(* of 1/Scale (Scale = 10^6), so 0.001 is 1000 units and a limit           *)
(* L = 0.0015 is 1500 units.  A cell of a table is a record                *)
(*   [t |-> "num", v |-> units, s |-> <<>>]   a number                     *)
(*   [t |-> "nan", v |-> 0,     s |-> <<>>]   the missing marker (NaN)     *)
(*   [t |-> "str", v |-> 0,     s |-> chars]  a text cell (object column)  *)
(* A table maps column names to sequences of cells (row position order).   *)
(* A limit mapping (a Python dict, insertion ordered) is a sequence of     *)
(* records [col |-> name, lod |-> units].                                  *)
(***************************************************************************)
EXTENDS Integers, Sequences, FiniteSets, TLC

VARIABLES
    pc,              \* control point of the running call
    df_in,           \* the table as the caller passed it (history)
    df,              \* the caller's table object (detectar_lod mutates it)
    lod_info,        \* limit mapping: built by the detector, read by engines
    opts,            \* keyword options of the call
    df_coords,       \* coordinate table: None, or a frame (a sequence of columns)
    df_resultado,    \* the engine's working copy / returned table
    log_reemplazos,  \* the operation log being built / returned
    col_i,           \* position of the column loop (index into lod_info or columns)
    loopst,          \* per-column loop state of the running engine
    em,              \* EM loop state of the log-ratio engine
    exc,             \* the exception the call raised ("" while none)
    rng,             \* numpy's global random generator (np.random)
    ret              \* the (table, log) pairs earlier calls returned to the caller

vars == <<pc, df_in, df, lod_info, opts, df_coords, df_resultado,
          log_reemplazos, col_i, loopst, em, exc, rng, ret>>

-----------------------------------------------------------------------------
(* Bounds of the model *)

\* rows of a measurement table
NRows == 3

\* largest max_iter a caller of the log-ratio EM engine passes
MaxIter == 3

\* fixed-point units per 1.0
Scale == 10^6

-----------------------------------------------------------------------------
(* Generic helpers *)

Max(a, b) == IF a >= b THEN a ELSE b
Min(a, b) == IF a <= b THEN a ELSE b
Abs(a) == IF a < 0 THEN -a ELSE a

Num(v) == [t |-> "num", v |-> v, s |-> <<>>]
NaN == [t |-> "nan", v |-> 0, s |-> <<>>]
Str(s) == [t |-> "str", v |-> 0, s |-> s]

\* pandas isna(): only the missing marker, never a text cell
IsNa(c) == c.t = "nan"

Rows == 1..NRows

RECURSIVE SeqSum(_)
SeqSum(q) == IF q = <<>> THEN 0 ELSE Head(q) + SeqSum(Tail(q))

RECURSIVE SetMax(_)
SetMax(S) ==
    LET x == CHOOSE y \in S : TRUE
    IN IF S = {x} THEN x ELSE Max(x, SetMax(S \ {x}))

RECURSIVE SetMin(_)
SetMin(S) ==
    LET x == CHOOSE y \in S : TRUE
    IN IF S = {x} THEN x ELSE Min(x, SetMin(S \ {x}))

\* ascending sequence of the members of a set of integers (np.where(mask)[0])
RECURSIVE SortedSeq(_)
SortedSeq(S) ==
    IF S = {} THEN <<>>
    ELSE LET m == SetMin(S) IN <<m>> \o SortedSeq(S \ {m})

\* dict lookup: the keys of a limit mapping
Keys(li) == {li[i].col : i \in 1..Len(li)}

-----------------------------------------------------------------------------
(* reader.py: detectar_lod *)

IsSpace(c) == c \in {" ", "\t"}
IsDigit(c) == c \in {"0", "1", "2", "3", "4", "5", "6", "7", "8", "9"}

DigitVal(c) ==
    CASE c = "0" -> 0 [] c = "1" -> 1 [] c = "2" -> 2 [] c = "3" -> 3
      [] c = "4" -> 4 [] c = "5" -> 5 [] c = "6" -> 6 [] c = "7" -> 7
      [] c = "8" -> 8 [] c = "9" -> 9

DigitChar(d) == <<"0", "1", "2", "3", "4", "5", "6", "7", "8", "9">>[d + 1]

\* str(int) for a non-negative integer
RECURSIVE IntRepr(_)
IntRepr(n) == IF n < 10 THEN <<DigitChar(n)>>
              ELSE IntRepr(n \div 10) \o <<DigitChar(n % 10)>>

\* str(float) for a non-negative number with one decimal: "10.5", "100.0"
FloatRepr(v) ==
    IntRepr(v \div Scale) \o <<".">> \o <<DigitChar((v % Scale) \div (Scale \div 10))>>

\* Series.astype(str): the text a cell is matched on
AsStr(c) ==
    CASE c.t = "str" -> c.s
      [] c.t = "nan" -> <<"n", "a", "n">>
      [] c.t = "num" -> FloatRepr(c.v)

\* first position >= i of s that holds no whitespace (the regex's \s*)
SkipSpaces(s, i) ==
    LET n == Len(s)
        f[k \in 1..(n + 1)] == IF k <= n /\ IsSpace(s[k]) THEN f[k + 1] ELSE k
    IN f[i]

\* first position >= i of s that holds no digit (the regex's \d+)
SkipDigits(s, i) ==
    LET n == Len(s)
        f[k \in 1..(n + 1)] == IF k <= n /\ IsDigit(s[k]) THEN f[k + 1] ELSE k
    IN f[i]

\* re.match(r"^<\s*\d+(\.\d+)?$", s), scanning left to right as the regex does
RegexMatch(s) ==
    LET n == Len(s) IN
    /\ n >= 1
    /\ s[1] = "<"
    /\ LET a == SkipSpaces(s, 2)
           b == SkipDigits(s, a)
       IN /\ b > a
          /\ \/ b = n + 1
             \/ /\ b <= n
                /\ s[b] = "."
                /\ LET c == SkipDigits(s, b + 1)
                   IN c > b + 1 /\ c = n + 1

\* Series.str.replace("<", "", regex=False)
StrReplaceLt(s) == SelectSeq(s, LAMBDA c : c # "<")

\* value of a run of digits s[i..j-1] read as an integer
RECURSIVE DigitsVal(_, _, _)
DigitsVal(s, i, j) ==
    IF j <= i THEN 0 ELSE DigitsVal(s, i, j - 1) * 10 + DigitVal(s[j - 1])

Pow10(k) == 10^k

\* float(text): surrounding whitespace stripped, then digits[.digits];
\* the result in units of 1/Scale (at most six decimals are kept)
ToFloat(s) ==
    LET a == SkipSpaces(s, 1)
        b == SkipDigits(s, a)
        c == IF b <= Len(s) /\ s[b] = "." THEN SkipDigits(s, b + 1) ELSE b
        nfrac == IF c > b THEN c - (b + 1) ELSE 0
    IN DigitsVal(s, a, b) * Scale
       + (IF nfrac = 0 THEN 0
          ELSE (DigitsVal(s, b + 1, c) * Scale) \div Pow10(nfrac))

\* a text pd.to_numeric parses as a number: digits[.digits]
IsNumericText(s) ==
    LET b == SkipDigits(s, 1)
    IN /\ b > 1
       /\ \/ b = Len(s) + 1
          \/ /\ b <= Len(s) /\ s[b] = "."
             /\ LET c == SkipDigits(s, b + 1)
                IN c > b + 1 /\ c = Len(s) + 1

\* pd.to_numeric(column, errors="ignore"): every text cell converted when all
\* of them parse, the column returned as it is when one does not
ToNumeric(column) ==
    IF \A r \in 1..Len(column) :
          column[r].t = "str" => IsNumericText(column[r].s)
    THEN [r \in 1..Len(column) |->
            IF column[r].t = "str" THEN Num(ToFloat(column[r].s)) ELSE column[r]]
    ELSE column

\* mask = df[col].astype(str).str.match(...)
LodMask(column) == {r \in 1..Len(column) : RegexMatch(AsStr(column[r]))}

\* mutant of LodValue: the suffix of the first masked cell, not the maximum
LodValueFirst(column, mask) ==
    ToFloat(StrReplaceLt(AsStr(column[SetMin(mask)])))

\* lod_value: the .max() of the parsed suffixes of the masked cells
LodValue(column, mask) ==
    SetMax({ToFloat(StrReplaceLt(AsStr(column[r]))) : r \in mask})

\* one pass of the loop body of detectar_lod on column col
DetectColumn(table, col) ==
    LET mask == LodMask(table[col])
        masked == [r \in 1..Len(table[col]) |->
                     IF r \in mask THEN NaN ELSE table[col][r]]
    IN [table EXCEPT ![col] = ToNumeric(IF mask # {} THEN masked ELSE table[col])]


TableCols == <<"Cu", "Zn">>

\* the whole of detectar_lod: the loop over df.columns, the table mutated in
\* place, the limit mapping in column order
RECURSIVE DetectFrom(_, _, _)
DetectFrom(table, li, i) ==
    IF i > Len(TableCols) THEN [table |-> table, lod_info |-> li]
    ELSE LET col == TableCols[i]
             mask == LodMask(table[col])
             li2 == IF mask # {}
                    THEN Append(li, [col |-> col, lod |-> LodValue(table[col], mask)])
                    ELSE li
         IN DetectFrom(DetectColumn(table, col), li2, i + 1)

\* dict lookup lod_info[col]
Lod(li, col) == LET i == CHOOSE j \in 1..Len(li) : li[j].col = col IN li[i].lod

\* df_coords: None (the dispatcher's default) or a DataFrame, given by its
\* columns; an empty frame has none
CoordsNone == [kind |-> "None", cols |-> <<>>]
Frame(cols) == [kind |-> "frame", cols |-> cols]

\* DataFrame.empty
FrameEmpty(f) == f.cols = <<>>

\* what an engine's variables hold while no engine runs
NoOpts == [metodo |-> "none"]
NoLoop == [k |-> 0]
NoEm == [iteration |-> 0]

\* The global generator.  Its outputs are a fixed function of the seed and of
\* the number of values drawn since: rng.stream holds the outputs that follow
\* np.random.seed(42), as far as some call has consumed them (an output seen
\* at a position is the output at that position in every later call);
\* rng.on says that the generator's state lies on that stream, at position
\* rng.pos.  With rng.on FALSE the state is one the program never fixed
\* (seeded from the system at start-up, or moved by another consumer).
\* An output is one of the classes DrawIdx.
DrawIdx == 1..5

RngUnknown == [stream |-> <<>>, on |-> FALSE, pos |-> 0]

\* mutant of Seed42: the generator is left as it is
Seed42None(g) == g

\* np.random.seed(42)
Seed42(g) == [g EXCEPT !.on = TRUE, !.pos = 0]

\* the n outputs a draw of size n can give in generator state g
RngOutputs(g, n) ==
    {f \in [1..n -> DrawIdx] :
        g.on => \A i \in 1..n :
                   g.pos + i <= Len(g.stream) => f[i] = g.stream[g.pos + i]}

\* the generator after it gave the outputs f
RngAfter(g, f) ==
    IF ~g.on THEN g
    ELSE [g EXCEPT
            !.pos = g.pos + Len(f),
            !.stream = [i \in 1..Max(Len(g.stream), g.pos + Len(f)) |->
                          IF i <= Len(g.stream) THEN g.stream[i]
                          ELSE f[i - g.pos]]]

\* cell texts and values of the raw tables the detector is run on: numbers,
\* missing cells (cargar_csv has already turned the null tokens into NaN),
\* below-limit notations and texts that are near misses of the pattern
DetCells ==
    { Num(10500000), NaN,
      Str(<<"<", "5">>), Str(<<"<", " ", "5">>), Str(<<"<", "0", ".", "5">>),
      Str(<<"<", "1", "0">>), Str(<<"<", "\t", " ", "2", ".", "5", "0">>),
      Str(<<"7">>), Str(<<"<", "5", "x">>), Str(<<"<", ".", "5">>),
      Str(<<"<", "5", ".">>), Str(<<"n", "<", "5">>), Str(<<"<", " ">>),
      Str(<<"<", "5", " ">>), Str(<<"<", "0">>) }

ZnRawColumns ==
    { [r \in Rows |-> Num(100000000)],
      [r \in Rows |-> IF r = 2 THEN Str(<<"<", "5", "0">>) ELSE Num(100000000)],
      [r \in Rows |-> IF r = 1 THEN Str(<<"a">>) ELSE Str(<<"1", "2">>)] }

InitDetect ==
    /\ pc = "detect"
    /\ df \in {[c \in {"Cu", "Zn"} |-> IF c = "Cu" THEN cu ELSE zn] :
                 cu \in [Rows -> DetCells], zn \in ZnRawColumns}
    /\ df_in = df
    /\ lod_info = <<>>
    /\ opts = NoOpts
    /\ df_coords = CoordsNone
    /\ df_resultado = df
    /\ log_reemplazos = <<>>
    /\ col_i = 0
    /\ loopst = NoLoop
    /\ em = NoEm
    /\ exc = ""
    /\ rng = RngUnknown
    /\ ret = <<>>

DetectarLod ==
    /\ pc = "detect"
    /\ LET res == DetectFrom(df, <<>>, 1)
       IN /\ df' = res.table
          /\ lod_info' = res.lod_info
    /\ pc' = "detected"
    /\ UNCHANGED <<df_in, opts, df_coords, df_resultado, log_reemplazos,
                   col_i, loopst, em, exc>>
    /\ UNCHANGED <<rng, ret>>

NextDetect == DetectarLod

SpecDetect == InitDetect /\ [][NextDetect]_vars

-----------------------------------------------------------------------------
(* C1 *)

\* the pattern of the claim, stated on the text as a whole: "<", then
\* whitespace (possibly none), then a decimal number digits[.digits]
BelowLimitText(s) ==
    /\ Len(s) >= 2
    /\ s[1] = "<"
    /\ \E a \in 2..Len(s) : \E b \in (a + 1)..(Len(s) + 1) :
          /\ \A k \in 2..(a - 1) : IsSpace(s[k])
          /\ \A k \in a..(b - 1) : IsDigit(s[k])
          /\ \/ b = Len(s) + 1
             \/ /\ b + 1 <= Len(s)
                /\ s[b] = "."
                /\ \A k \in (b + 1)..Len(s) : IsDigit(s[k])

\* the number a below-limit text denotes, digit by digit with its weight
SuffixValue(s) ==
    LET digs == {k \in 1..Len(s) : IsDigit(s[k])}
        dots == {k \in 1..Len(s) : s[k] = "."}
        dot == IF dots = {} THEN Len(s) + 1 ELSE CHOOSE k \in dots : TRUE
        weight(k) == IF k < dot THEN Scale * Pow10(dot - 1 - k)
                     ELSE Scale \div Pow10(k - dot)
        RECURSIVE Total(_)
        Total(S) == IF S = {} THEN 0
                    ELSE LET k == CHOOSE x \in S : TRUE
                         IN DigitVal(s[k]) * weight(k) + Total(S \ {k})
    IN Total(digs)

MatchingRows(col) ==
    {r \in Rows : df_in[col][r].t = "str" /\ BelowLimitText(df_in[col][r].s)}

\* C1: after detectar_lod, in every column, every cell whose text is "<" +
\* optional whitespace + decimal number is missing, no other cell has become
\* missing, the column has a limit entry iff it has a matching cell, and that
\* limit is the maximum of the numbers the matching cells of the column denote.
C1_DetectorLimits ==
    pc = "detected" =>
        \A col \in DOMAIN df_in :
            /\ \A r \in MatchingRows(col) : IsNa(df[col][r])
            /\ \A r \in Rows \ MatchingRows(col) :
                  IsNa(df[col][r]) => IsNa(df_in[col][r])
            /\ (col \in Keys(lod_info)) <=> (MatchingRows(col) # {})
            /\ MatchingRows(col) # {} =>
                  /\ Cardinality({i \in 1..Len(lod_info) : lod_info[i].col = col}) = 1
                  /\ Lod(lod_info, col) =
                        SetMax({SuffixValue(df_in[col][r].s) : r \in MatchingRows(col)})

\* a column with two different limits among its matching cells, and a
\* near-miss text left alone, after detection
C1_Witness ==
    /\ pc = "detected"
    /\ \E r1, r2 \in MatchingRows("Cu") :
          SuffixValue(df_in["Cu"][r1].s) < SuffixValue(df_in["Cu"][r2].s)
    /\ \E r \in Rows \ MatchingRows("Cu") : df_in["Cu"][r].t = "str"
    /\ "Zn" \in Keys(lod_info)

-----------------------------------------------------------------------------
(* imputation.py: reemplazar_lod_simple *)

\* 0.001, the lower clip bound of the engines
MinValor == 1000

\* np.clip(x, lo, hi) = minimum(hi, maximum(x, lo)), also when lo > hi
Clip(x, lo, hi) == Min(Max(x, lo), hi)

\* lod_value * 0.99 (and 0.99 * L)
Lod99(L) == (L * 99) \div 100

\* lod_value / np.sqrt(2), to four decimals of 1/sqrt(2)
DivSqrt2(L) == (L * 7071) \div 10000

\* valor_central of the chosen variant ("sqrt2", anything else is div2)
ValorCentral(L, metodo) == IF metodo = "sqrt2" THEN DivSqrt2(L) ELSE L \div 2

\* positions of the missing cells of a column, ascending (mask_nan)
NanRows(column) == {r \in 1..Len(column) : IsNa(column[r])}

\* the value np.random.normal(loc=C, scale=0.15*C) gives for an output class:
\* the normal law has every real in its support, so a draw far below zero,
\* one standard deviation either side of C, C itself, and one far above the
\* limit
NormalAt(C, L, k) ==
    CASE k = 1 -> -C
      [] k = 2 -> (C * 85) \div 100
      [] k = 3 -> C
      [] k = 4 -> (C * 115) \div 100
      [] OTHER -> 2 * L

\* mutant of SimpleValores: the second np.clip (after the rescale) left out
SimpleValoresNoReclip(draws, L, metodo) ==
    LET C == ValorCentral(L, metodo)
        n == Len(draws)
        clipped == [i \in 1..n |-> Clip(draws[i], MinValor, Lod99(L))]
        suma == SeqSum(clipped)
    IN [i \in 1..n |-> (clipped[i] * C * n) \div suma]

\* valores_aleatorios as written into the column: the draws clipped, rescaled
\* by factor_correccion = valor_central / media_actual, clipped again
SimpleValores(draws, L, metodo) ==
    LET C == ValorCentral(L, metodo)
        n == Len(draws)
        clipped == [i \in 1..n |-> Clip(draws[i], MinValor, Lod99(L))]
        suma == SeqSum(clipped)
        rescaled == [i \in 1..n |-> (clipped[i] * C * n) \div suma]
    IN [i \in 1..n |-> Clip(rescaled[i], MinValor, Lod99(L))]

\* mutant of AssignRows: only the first masked row is written
AssignRowsFirstOnly(table, col, rowseq, valores) ==
    [table EXCEPT ![col] =
        [r \in 1..Len(table[col]) |->
            IF rowseq # <<>> /\ rowseq[1] = r THEN Num(valores[1]) ELSE table[col][r]]]

\* df_resultado.loc[mask, col] = valores (in row order)
AssignRows(table, col, rowseq, valores) ==
    [table EXCEPT ![col] =
        [r \in 1..Len(table[col]) |->
            IF \E i \in 1..Len(rowseq) : rowseq[i] = r
            THEN Num(valores[CHOOSE i \in 1..Len(rowseq) : rowseq[i] = r])
            ELSE table[col][r]]]

\* limits an engine is given: positive numbers (the data model of the limit
\* mapping), from 0.001 and 0.0015 (where 0.99*L or the centre falls below
\* 0.001) to 0.01
LimitValues == {1000, 1500, 10000}

\* observed values of a measurement table
ObsValues == {3000, 20000}

EngineCells == {NaN} \cup {Num(v) : v \in ObsValues}

\* limit mappings: none, one column, two columns in either order, and a key
\* that names no column of the table
LimitMaps ==
    {<<>>}
    \cup {<<[col |-> "Cu", lod |-> L]>> : L \in LimitValues}
    \cup {<<[col |-> "Zn", lod |-> 10000], [col |-> "Cu", lod |-> L]>> : L \in LimitValues}
    \cup {<<[col |-> "Pb", lod |-> 10000], [col |-> "Cu", lod |-> L]>> : L \in {1000, 10000}}
    \cup {<<[col |-> "Cu", lod |-> 1500], [col |-> "Zn", lod |-> 1000]>>}

\* the Zn column: fully observed, or one missing cell
ZnColumns ==
    { [r \in Rows |-> Num(20000)],
      [r \in Rows |-> IF r = 2 THEN NaN ELSE Num(3000)] }

EngineTables ==
    {[c \in {"Cu", "Zn"} |-> IF c = "Cu" THEN cu ELSE zn] :
        cu \in [Rows -> {NaN, Num(20000)}], zn \in ZnColumns}

InitSimple ==
    /\ pc = "simple"
    /\ df \in EngineTables
    /\ df_in = df
    /\ lod_info \in LimitMaps
    /\ opts \in {[metodo |-> m] : m \in {"sqrt2", "div2"}}
    /\ df_coords = CoordsNone
    /\ df_resultado = df
    /\ log_reemplazos = <<>>
    /\ col_i = 1
    /\ loopst = NoLoop
    /\ em = NoEm
    /\ exc = ""
    /\ rng = RngUnknown
    /\ ret = <<>>

\* mutant of CallerTable: the engine works on the caller's object
\* ("df_resultado = df"), so the caller's table is the written one
CallerTableShared(input, working) == working

\* Every engine starts with "df_resultado = df.copy()" and writes to the copy:
\* the caller's table after a write is the caller's table before it
CallerTable(input, working) == input

\* the parameter metodo of reemplazar_lod_simple: the caller's argument, or
\* kwargs.get("metodo_simple", "sqrt2") when the dispatcher makes the call
SimpleVariant(o) ==
    IF "metodo_simple" \in DOMAIN o THEN o.metodo_simple ELSE o.metodo

\* reemplazar_lod_simple up to the loop: the copy of the table, the empty
\* log and the reseeding of the global generator
SimpleStart ==
    /\ pc = "simple"
    /\ pc' = "simple_col"
    /\ df_resultado' = df
    /\ log_reemplazos' = <<>>
    /\ col_i' = 1
    /\ rng' = Seed42(rng)
    /\ UNCHANGED <<df_in, df, lod_info, opts, df_coords, loopst, em, exc, ret>>

\* one pass of the loop "for col, lod_value in lod_info.items()"
SimpleColumn ==
    /\ pc = "simple_col"
    /\ col_i <= Len(lod_info)
    /\ LET col == lod_info[col_i].col
           L == lod_info[col_i].lod
       IN IF col \notin DOMAIN df_resultado
          THEN UNCHANGED <<df_resultado, log_reemplazos, rng>>
          ELSE LET rowseq == SortedSeq(NanRows(df_resultado[col]))
                   n == Len(rowseq)
                   C == ValorCentral(L, SimpleVariant(opts))
               IN IF n = 0
                  THEN UNCHANGED <<df_resultado, log_reemplazos, rng>>
                  ELSE \E f \in RngOutputs(rng, n) :
                         LET draws == [i \in 1..n |-> NormalAt(C, L, f[i])]
                             valores == SimpleValores(draws, L, SimpleVariant(opts))
                         IN /\ rng' = RngAfter(rng, f)
                            /\ df_resultado' = AssignRows(df_resultado, col, rowseq, valores)
                            /\ log_reemplazos' = Append(log_reemplazos,
                                   [columna |-> col,
                                    n_reemplazos |-> n,
                                    lod |-> L,
                                    valor_central_objetivo |-> C,
                                    media_obtenida |-> SeqSum(valores) \div n,
                                    metodo |-> SimpleVariant(opts)])
    /\ col_i' = col_i + 1
    /\ df' = CallerTable(df, df_resultado')
    /\ UNCHANGED <<pc, df_in, lod_info, opts, df_coords, loopst, em, exc, ret>>

\* return df_resultado, pd.DataFrame(log_reemplazos)
SimpleReturn ==
    /\ pc = "simple_col"
    /\ col_i > Len(lod_info)
    /\ pc' = "returned"
    /\ UNCHANGED <<df_in, df, lod_info, opts, df_coords, df_resultado,
                   log_reemplazos, col_i, loopst, em, exc>>
    /\ UNCHANGED <<rng, ret>>

NextSimple == SimpleStart \/ SimpleColumn \/ SimpleReturn

SpecSimple == InitSimple /\ [][NextSimple]_vars

\* columns the limit mapping names that the table has
LimitCols == Keys(lod_info) \cap DOMAIN df_in

\* cells of column col that were missing in the caller's table
InputNanRows(col) == NanRows(df_in[col])

-----------------------------------------------------------------------------
(* C2 *)

-----------------------------------------------------------------------------
(* C3 *)

\* the value the returned table holds in a cell
Valor(col, r) == df_resultado[col][r].v

-----------------------------------------------------------------------------
(* C4 *)

\* sum of the values the returned table holds in the rows S of a column
RECURSIVE SumValores(_, _)
SumValores(col, S) ==
    IF S = {} THEN 0
    ELSE LET r == CHOOSE x \in S : TRUE
         IN Valor(col, r) + SumValores(col, S \ {r})

\* C4 as stated: in every column with limit L the mean of the values written
\* into the missing cells is the centre C (L/sqrt(2) or L/2) for every set of
\* draws.  Stated on the sum, exact to the resolution of the fixed-point
\* arithmetic (less than one unit per value).
C4_SimpleMeanExact ==
    pc = "returned" =>
        \A col \in LimitCols :
            LET S == InputNanRows(col)
                C == ValorCentral(Lod(lod_info, col), opts.metodo)
            IN S # {} =>
                 Abs(SumValores(col, S) - Cardinality(S) * C) <= Cardinality(S)

-----------------------------------------------------------------------------
(* imputation.py: aplicar_reemplazo_lod *)

\* The dispatcher's signature is (df, lod_info, metodo, df_coords=None,
\* **kwargs).  opts.kw is the keyword the caller passes the selector under:
\* "metodo" (or positionally) binds the parameter; any other keyword, such as
\* the "method" of tests/test_basic.py, lands in **kwargs and leaves the
\* required parameter metodo unbound, which Python answers with TypeError
\* before the body runs.
Dispatch ==
    /\ pc = "dispatch"
    /\ IF opts.kw # "metodo"
       THEN pc' = "raised" /\ exc' = "TypeError"
       ELSE IF opts.metodo = "simple" THEN pc' = "simple" /\ exc' = exc
       ELSE IF opts.metodo = "multiplicativo"
            \* reemplazar_lod_multiplicativo is defined nowhere
            THEN pc' = "raised" /\ exc' = "NameError"
       ELSE IF opts.metodo = "beta" THEN pc' = "beta" /\ exc' = exc
       ELSE IF opts.metodo = "lrem"
            \* "from lrem import aplicar_lrem_robusto" finds the module only
            \* when the directory of lrem.py is on the import path
            THEN \E found \in BOOLEAN :
                    IF found THEN pc' = "lrem_robusto" /\ exc' = exc
                    ELSE pc' = "raised" /\ exc' = "ImportError"
       ELSE IF opts.metodo = "idw"
            THEN IF df_coords.kind = "None" \/ FrameEmpty(df_coords)
                 THEN pc' = "raised" /\ exc' = "ValueError"
                 ELSE pc' = "idw" /\ exc' = exc
       ELSE pc' = "raised" /\ exc' = "ValueError"
    /\ UNCHANGED <<df_in, df, lod_info, opts, df_coords, df_resultado,
                   log_reemplazos, col_i, loopst, em>>
    /\ UNCHANGED <<rng, ret>>

-----------------------------------------------------------------------------
(* imputation.py: reemplazar_lod_beta_substitution *)

\* A float of the estimators: not-a-number, an infinity, or a finite value in
\* thousandths.
FNaN == [k |-> "nan", v |-> 0]
FInf == [k |-> "inf", v |-> 0]
FNegInf == [k |-> "-inf", v |-> 0]
Fin(v) == [k |-> "fin", v |-> v]

\* np.isfinite
IsFinite(x) == x.k = "fin"

\* x <= 0 (False on NaN)
LeZero(x) == x.k = "-inf" \/ (x.k = "fin" /\ x.v <= 0)

\* 0 < x < 1 (False on NaN and on the infinities)
InUnit(x) == x.k = "fin" /\ 0 < x.v /\ x.v < 1000

\* s_y_hat, beta_MEAN and beta_GM are computed from the observed values with
\* log, exp and the normal pdf, cdf and ppf.  The model leaves their values
\* open: each is any float of these classes.  The betas are computed only
\* after s_y_hat has passed its guard (FNaN stands for "not computed").
SHatInvalid == {FNaN, FInf, FNegInf, Fin(-500), Fin(0)}
BetaInvalid == {FNaN, FInf, Fin(-200), Fin(0), Fin(1000), Fin(1500)}
BetaValid == {Fin(350), Fin(900)}

Estimates ==
    {[s_y_hat |-> s, beta_MEAN |-> FNaN, beta_GM |-> FNaN] : s \in SHatInvalid}
    \cup {[s_y_hat |-> Fin(800), beta_MEAN |-> bm, beta_GM |-> Fin(350)] :
            bm \in BetaInvalid}
    \cup {[s_y_hat |-> Fin(800), beta_MEAN |-> bm, beta_GM |-> bg] :
            bm \in BetaValid, bg \in BetaInvalid \cup BetaValid}

\* beta * LOD
BetaTimes(beta, L) == (beta.v * L) \div 1000

\* mutant of BetaValor: beta_GM used for the replacement instead of beta_MEAN
BetaValorGM(s_y_hat, beta_MEAN, beta_GM, L) ==
    IF LeZero(s_y_hat) \/ ~IsFinite(s_y_hat) THEN DivSqrt2(L)
    ELSE IF ~InUnit(beta_MEAN) \/ ~IsFinite(beta_MEAN) THEN DivSqrt2(L)
    ELSE IF ~InUnit(beta_GM) \/ ~IsFinite(beta_GM) THEN DivSqrt2(L)
    ELSE BetaTimes(beta_GM, L)

\* the value written into the censored cells of a column: the three guarded
\* fallbacks to LOD / sqrt(2), then beta_MEAN * LOD
BetaValor(s_y_hat, beta_MEAN, beta_GM, L) ==
    IF LeZero(s_y_hat) \/ ~IsFinite(s_y_hat) THEN DivSqrt2(L)
    ELSE IF ~InUnit(beta_MEAN) \/ ~IsFinite(beta_MEAN) THEN DivSqrt2(L)
    ELSE IF ~InUnit(beta_GM) \/ ~IsFinite(beta_GM) THEN DivSqrt2(L)
    ELSE BetaTimes(beta_MEAN, L)

\* whether the column reaches the log record (no fallback taken)
BetaLogged(s_y_hat, beta_MEAN, beta_GM) ==
    /\ ~(LeZero(s_y_hat) \/ ~IsFinite(s_y_hat))
    /\ ~(~InUnit(beta_MEAN) \/ ~IsFinite(beta_MEAN))
    /\ ~(~InUnit(beta_GM) \/ ~IsFinite(beta_GM))

\* df_resultado.loc[~mask_detectados, col] = valor (one scalar for the column)
AssignScalar(table, col, rows, valor) ==
    [table EXCEPT ![col] =
        [r \in 1..Len(table[col]) |-> IF r \in rows THEN Num(valor) ELSE table[col][r]]]

\* how the selector reaches the dispatcher
BetaCalls ==
    { [metodo |-> "beta", kw |-> "metodo"],
      [metodo |-> "beta", kw |-> "method"] }

InitBeta ==
    /\ pc \in {"beta", "dispatch"}
    /\ opts \in (IF pc = "dispatch" THEN BetaCalls ELSE {[metodo |-> "beta", kw |-> "direct"]})
    /\ df \in EngineTables
    /\ df_in = df
    /\ lod_info \in LimitMaps
    /\ df_coords = CoordsNone
    /\ df_resultado = df
    /\ log_reemplazos = <<>>
    /\ col_i = 1
    /\ loopst = [est |-> <<>>]
    /\ em = NoEm
    /\ exc = ""
    /\ rng = RngUnknown
    /\ ret = <<>>

\* one pass of the loop "for col, LOD in lod_info.items()"; loopst.est keeps
\* the estimates each pass computed (history)
BetaColumn ==
    /\ pc = "beta"
    /\ col_i <= Len(lod_info)
    /\ LET col == lod_info[col_i].col
           LOD == lod_info[col_i].lod
       IN IF col \notin DOMAIN df_resultado
          THEN UNCHANGED <<df_resultado, log_reemplazos, loopst>>
          ELSE LET censored == NanRows(df_resultado[col])
                   n == Len(df_resultado[col])
                   k == Cardinality(censored)
                   n_detectados == n - k
               IN IF n_detectados < 2 \/ k = 0
                  THEN UNCHANGED <<df_resultado, log_reemplazos, loopst>>
                  ELSE \E e \in Estimates :
                         LET s_y_hat == e.s_y_hat
                             beta_MEAN == e.beta_MEAN
                             beta_GM == e.beta_GM
                         IN
                         /\ df_resultado' = AssignScalar(df_resultado, col, censored,
                                BetaValor(s_y_hat, beta_MEAN, beta_GM, LOD))
                         /\ loopst' = [est |-> Append(loopst.est,
                                [columna |-> col, s_y_hat |-> s_y_hat,
                                 beta_MEAN |-> beta_MEAN, beta_GM |-> beta_GM])]
                         /\ log_reemplazos' =
                               IF BetaLogged(s_y_hat, beta_MEAN, beta_GM)
                               THEN Append(log_reemplazos,
                                      [columna |-> col,
                                       n_censored |-> k,
                                       lod |-> LOD,
                                       beta_GM |-> beta_GM.v,
                                       beta_MEAN |-> beta_MEAN.v,
                                       valor_reemplazo |-> BetaTimes(beta_MEAN, LOD)])
                               ELSE log_reemplazos
    /\ col_i' = col_i + 1
    /\ df' = CallerTable(df, df_resultado')
    /\ UNCHANGED <<pc, df_in, lod_info, opts, df_coords, em, exc>>
    /\ UNCHANGED <<rng, ret>>

\* return df_resultado, pd.DataFrame(log_reemplazos)
BetaReturn ==
    /\ pc = "beta"
    /\ col_i > Len(lod_info)
    /\ pc' = "returned"
    /\ UNCHANGED <<df_in, df, lod_info, opts, df_coords, df_resultado,
                   log_reemplazos, col_i, loopst, em, exc>>
    /\ UNCHANGED <<rng, ret>>

NextBeta == Dispatch \/ BetaColumn \/ BetaReturn

SpecBeta == InitBeta /\ [][NextBeta]_vars

-----------------------------------------------------------------------------
(* C5 *)

\* the columns the beta engine fills: at least two observed values and at
\* least one censored cell in the caller's table
BetaFilled(col) ==
    /\ col \in LimitCols
    /\ NRows - Cardinality(InputNanRows(col)) >= 2
    /\ InputNanRows(col) # {}

\* the estimates the engine computed for a column
EstOf(col) == loopst.est[CHOOSE i \in 1..Len(loopst.est) : loopst.est[i].columna = col]

-----------------------------------------------------------------------------
(* C6 *)

\* C6: the beta method requested through the dispatcher the way
\* tests/test_basic.py requests it (selector passed as method=) returns a
\* table in which no limit column contains a missing cell.
C6_BetaViaDispatcherNoMissing ==
    (opts.kw = "method" /\ pc \notin {"dispatch", "beta"}) =>
        /\ pc = "returned"
        /\ \A col \in LimitCols : NanRows(df_resultado[col]) = {}

-----------------------------------------------------------------------------
(* imputation.py: reemplazar_lod_idw *)

\* integer square root (np.sqrt inside cdist; exact on the model's points)
ISqrt(n) == CHOOSE r \in 0..n : r * r <= n /\ n < (r + 1) * (r + 1)

\* dist_matrix[i, j] = cdist(coords, coords)[i, j] on the first two columns
Dist(f, i, j) ==
    LET dx == f.cols[1][i] - f.cols[1][j]
        dy == f.cols[2][i] - f.cols[2][j]
    IN ISqrt(dx * dx + dy * dy)

\* np.where(distancias < 1e-10, 1e-10, distancias): the points of the model
\* are pairwise distinct with whole-number distances, which the floor leaves
\* as they are
DistFloor(d) == d

\* distancias ** power
PowInt(d, power) == d^power

RECURSIVE SeqProd(_)
SeqProd(q) == IF q = <<>> THEN 1 ELSE Head(q) * SeqProd(Tail(q))

\* valor_interpolado = sum(pesos * valores_vecinos) with pesos = 1/d^power
\* normalised to sum 1: the weights brought over the common denominator
\* (the product of the d^power)
Interpolar(dists, valores, power) ==
    LET n == Len(dists)
        dp == [i \in 1..n |-> PowInt(DistFloor(dists[i]), power)]
        D == SeqProd(dp)
        num == SeqSum([i \in 1..n |-> valores[i] * (D \div dp[i])])
        den == SeqSum([i \in 1..n |-> D \div dp[i]])
    IN num \div den

\* hundredths: the resolution of the normalised weight w in [0, 1]
WScale == 100

\* w = np.clip((valor_interpolado - min_obs) / rango, 0, 1)
PesoW(valor_interpolado, min_obs, rango) ==
    Clip(((valor_interpolado - min_obs) * WScale) \div rango, 0, WScale)

\* V = A * w**2 + B * w
Cuadratico(A, B, w) == (A * w * w + B * w * WScale) \div (WScale * WScale)

\* mutant of ValorFinalV: the clamp to [0.001, 0.99*L] left out
ValorFinalVNoClamp(V, L) == V

\* V = max(0.001, min(V, 0.99 * L))
ValorFinalV(V, L) == Max(MinValor, Min(V, Lod99(L)))

\* C of the chosen variant ("div2", anything else is sqrt2)
CentroC(L, metodo_c) == IF metodo_c = "div2" THEN L \div 2 ELSE DivSqrt2(L)

\* rango = max_obs - min_obs, replaced by max_obs (or 1) when it is zero
Rango(min_obs, max_obs) ==
    IF max_obs - min_obs = 0
    THEN (IF max_obs > 0 THEN max_obs ELSE Scale)
    ELSE max_obs - min_obs

\* mutant of Vecinos: the observed cells of the caller's table, so that the
\* cells filled earlier in the pass are not seen
VecinosInput(table, col) ==
    {r \in 1..Len(df_in[col]) : ~IsNa(df_in[col][r])}

\* indices_validos = np.where(~df_resultado[col].isna())[0]
Vecinos(table, col) ==
    {r \in 1..Len(table[col]) : ~IsNa(table[col][r])}

\* mutant of IdwMetodo: "<=" for "<" in the two neighbour-count tests
IdwMetodoLe(n_validos, n_dist, min_neighbors, md_set) ==
    IF n_validos <= min_neighbors THEN "fallback"
    ELSE IF md_set /\ n_dist <= min_neighbors THEN "fallback_distancia"
    ELSE "idw"

\* which branch fills the cell: too few valid cells, too few of them within
\* max_distance, or the interpolation
IdwMetodo(n_validos, n_dist, min_neighbors, md_set) ==
    IF n_validos < min_neighbors THEN "fallback"
    ELSE IF md_set /\ n_dist < min_neighbors THEN "fallback_distancia"
    ELSE "idw"

\* the points of the coordinate table: corners of a 3 x 4 rectangle
CoordX == [r \in Rows |-> IF r % 2 = 0 THEN 3 ELSE 0]
CoordY == [r \in Rows |-> IF r >= 3 THEN 4 ELSE 0]

IdwTables ==
    {[c \in {"Cu", "Zn"} |-> IF c = "Cu" THEN cu ELSE zn] :
        cu \in [Rows -> EngineCells], zn \in ZnColumns}

IdwLimitMaps ==
    {<<>>}
    \cup {<<[col |-> "Cu", lod |-> L]>> : L \in LimitValues}
    \cup {<<[col |-> "Pb", lod |-> 10000], [col |-> "Zn", lod |-> 1500],
            [col |-> "Cu", lod |-> 10000]>>}

IdwOpts ==
    {[metodo |-> "idw", kw |-> "direct", power |-> p, md_set |-> ms,
      max_distance |-> 4, min_neighbors |-> mn, metodo_c |-> mc] :
        p \in {1, 2}, ms \in BOOLEAN, mn \in 1..3, mc \in {"div2", "sqrt2"}}

\* the default options, the selector passed to the dispatcher as metodo
IdwDefaultOpts ==
    [metodo |-> "idw", kw |-> "metodo", power |-> 2, md_set |-> FALSE,
     max_distance |-> 4, min_neighbors |-> 3, metodo_c |-> "div2"]

\* coordinate tables an idw call cannot use: None, no column, one column
BadCoords == {CoordsNone, Frame(<<>>), Frame(<<CoordX>>)}

InitIdw ==
    /\ pc \in {"idw", "dispatch"}
    /\ \/ /\ pc = "idw"
          /\ opts \in IdwOpts
          /\ df_coords \in {Frame(<<CoordX, CoordY>>)}
       \/ /\ opts = (IF pc = "idw" THEN [IdwDefaultOpts EXCEPT !.kw = "direct"]
                     ELSE IdwDefaultOpts)
          /\ df_coords \in BadCoords \cup {Frame(<<CoordX, CoordY, CoordX>>)}
    /\ df \in IdwTables
    /\ df_in = df
    /\ lod_info \in IdwLimitMaps
    /\ df_resultado = df
    /\ log_reemplazos = <<>>
    /\ col_i = 1
    /\ loopst = [pend |-> <<>>, hist |-> <<>>]
    /\ em = NoEm
    /\ exc = ""
    /\ rng = RngUnknown
    /\ ret = <<>>

\* the validation of the coordinates: None has no attribute "empty"
\* (AttributeError); an empty frame or one column raises ValueError
IdwStart ==
    /\ pc = "idw"
    /\ IF df_coords.kind = "None"
       THEN pc' = "raised" /\ exc' = "AttributeError"
       ELSE IF FrameEmpty(df_coords) \/ Len(df_coords.cols) < 2
       THEN pc' = "raised" /\ exc' = "ValueError"
       ELSE pc' = "idw_col" /\ exc' = exc
    /\ UNCHANGED <<df_in, df, lod_info, opts, df_coords, df_resultado,
                   log_reemplazos, col_i, loopst, em>>
    /\ UNCHANGED <<rng, ret>>

\* the head of one pass of "for col, L in lod_info.items()": the skips, the
\* observed range and the shape constants
IdwColumn ==
    /\ pc = "idw_col"
    /\ col_i <= Len(lod_info)
    /\ LET col == lod_info[col_i].col
           L == lod_info[col_i].lod
       IN IF col \notin DOMAIN df_resultado
          THEN /\ col_i' = col_i + 1
               /\ UNCHANGED <<pc, loopst>>
          ELSE LET indices_nan == SortedSeq(NanRows(df_resultado[col]))
                   observados == {df_resultado[col][r].v : r \in Vecinos(df_resultado, col)}
               IN IF observados = {} \/ indices_nan = <<>>
                  THEN /\ col_i' = col_i + 1
                       /\ UNCHANGED <<pc, loopst>>
                  ELSE LET max_obs == SetMax(observados)
                           min_obs == SetMin(observados)
                           C == CentroC(L, opts.metodo_c)
                       IN /\ loopst' = [pend |-> indices_nan,
                                        hist |-> loopst.hist,
                                        min_obs |-> min_obs,
                                        rango |-> Rango(min_obs, max_obs),
                                        C |-> C,
                                        A |-> 2 * L - 4 * C,
                                        B |-> 4 * C - L]
                          /\ pc' = "idw_cell"
                          /\ col_i' = col_i
    /\ UNCHANGED <<df_in, df, lod_info, opts, df_coords, df_resultado,
                   log_reemplazos, em, exc>>
    /\ UNCHANGED <<rng, ret>>

\* one pass of "for idx_nan in indices_nan"
IdwCell ==
    /\ pc = "idw_cell"
    /\ LET col == lod_info[col_i].col
           L == lod_info[col_i].lod
           idx_nan == Head(loopst.pend)
           indices_validos == SortedSeq(Vecinos(df_resultado, col))
           cerca == SelectSeq(indices_validos,
                       LAMBDA j : Dist(df_coords, idx_nan, j) <= opts.max_distance)
           usados == IF opts.md_set THEN cerca ELSE indices_validos
           tag == IdwMetodo(Len(indices_validos), Len(cerca),
                            opts.min_neighbors, opts.md_set)
           valor_interpolado ==
               Interpolar([i \in 1..Len(usados) |-> Dist(df_coords, idx_nan, usados[i])],
                          [i \in 1..Len(usados) |-> df_resultado[col][usados[i]].v],
                          opts.power)
           w == PesoW(valor_interpolado, loopst.min_obs, loopst.rango)
           valor == IF tag = "idw"
                    THEN ValorFinalV(Cuadratico(loopst.A, loopst.B, w), L)
                    ELSE loopst.C
       IN /\ df_resultado' = AssignScalar(df_resultado, col, {idx_nan}, valor)
          /\ log_reemplazos' = Append(log_reemplazos,
                 [fila |-> idx_nan, columna |-> col,
                  metodo |-> IF tag = "idw" THEN "nan" ELSE tag,
                  valor_final |-> valor, lod |-> L, C |-> loopst.C])
          /\ loopst' = [loopst EXCEPT
                 !.pend = Tail(loopst.pend),
                 !.hist = Append(loopst.hist,
                     [fila |-> idx_nan, columna |-> col, tag |-> tag,
                      n_validos |-> Len(indices_validos), n_cerca |-> Len(cerca),
                      vecinos |-> {<<indices_validos[i],
                                     df_resultado[col][indices_validos[i]].v>> :
                                       i \in 1..Len(indices_validos)},
                      valor_final |-> valor])]
          /\ IF Tail(loopst.pend) = <<>>
             THEN pc' = "idw_col" /\ col_i' = col_i + 1
             ELSE pc' = "idw_cell" /\ col_i' = col_i
    /\ df' = CallerTable(df, df_resultado')
    /\ UNCHANGED <<df_in, lod_info, opts, df_coords, em, exc>>
    /\ UNCHANGED <<rng, ret>>

\* return df_resultado, pd.DataFrame(log_reemplazos)
IdwReturn ==
    /\ pc = "idw_col"
    /\ col_i > Len(lod_info)
    /\ pc' = "returned"
    /\ UNCHANGED <<df_in, df, lod_info, opts, df_coords, df_resultado,
                   log_reemplazos, col_i, loopst, em, exc>>
    /\ UNCHANGED <<rng, ret>>

NextIdw == Dispatch \/ IdwStart \/ IdwColumn \/ IdwCell \/ IdwReturn

SpecIdw == InitIdw /\ [][NextIdw]_vars

-----------------------------------------------------------------------------
(* C7 *)

\* C7: when reemplazar_lod_idw has returned, every cell of a limit column
\* that was missing in the input holds a value (interpolated or fallback) in
\* [0.001, 0.99*L], whatever power, min_neighbors, max_distance, centre
\* variant and L.
C7_IdwRange ==
    pc = "returned" =>
        \A col \in LimitCols : \A r \in InputNanRows(col) :
            /\ ~IsNa(df_resultado[col][r])
            /\ MinValor <= Valor(col, r)
            /\ Valor(col, r) <= Lod99(Lod(lod_info, col))

-----------------------------------------------------------------------------
(* C8 *)

\* the log records of one cell
LogOf(col, r) ==
    {i \in 1..Len(log_reemplazos) :
        log_reemplazos[i].columna = col /\ log_reemplazos[i].fila = r}

\* the history entries of one cell (the pass that reached it)
HistOf(col, r) ==
    {i \in 1..Len(loopst.hist) :
        loopst.hist[i].columna = col /\ loopst.hist[i].fila = r}

\* the cell holds exactly C and the log has one record for it, tagged tag
FallbackWritten(col, r, tag) ==
    /\ df_resultado[col][r] = Num(CentroC(Lod(lod_info, col), opts.metodo_c))
    /\ \E i \in LogOf(col, r) :
          /\ log_reemplazos[i].metodo = tag
          /\ log_reemplazos[i].valor_final = CentroC(Lod(lod_info, col), opts.metodo_c)

\* number of observed cells a column has when its turn comes and none of its
\* cells has been filled yet
ObservedAtStart(col) == NRows - Cardinality(InputNanRows(col))

\* C8 as stated: every missing cell whose column has fewer than min_neighbors
\* currently-observed cells when the engine gets to it, any count from 0 to
\* min_neighbors-1, is written with exactly C and logged as 'fallback'.
C8_IdwFallbackFromZero ==
    pc = "returned" =>
        \A col \in LimitCols : \A r \in InputNanRows(col) :
            LET n_validos == IF HistOf(col, r) # {}
                             THEN loopst.hist[CHOOSE i \in HistOf(col, r) : TRUE].n_validos
                             ELSE ObservedAtStart(col)
            IN n_validos < opts.min_neighbors => FallbackWritten(col, r, "fallback")

\* C8 amended: every missing cell the cell loop reaches with fewer than
\* min_neighbors currently-observed cells in its column (any count from 1 to
\* min_neighbors-1) is written with exactly C and logged as 'fallback', and
\* one reached with enough observed cells but fewer than min_neighbors of them
\* within max_distance is written with exactly C and logged as
\* 'fallback_distancia'; a column with no observed cell is skipped, its cells
\* stay missing and get no log record.
C8_IdwFallback ==
    /\ \A i \in 1..Len(loopst.hist) :
          LET h == loopst.hist[i] IN
          /\ h.n_validos >= 1
          /\ h.n_validos < opts.min_neighbors =>
                FallbackWritten(h.columna, h.fila, "fallback")
          /\ (h.n_validos >= opts.min_neighbors /\ opts.md_set
                /\ h.n_cerca < opts.min_neighbors) =>
                FallbackWritten(h.columna, h.fila, "fallback_distancia")
    /\ pc = "returned" =>
          \A col \in LimitCols :
              ObservedAtStart(col) = 0 =>
                  \A r \in Rows : IsNa(df_resultado[col][r]) /\ LogOf(col, r) = {}

\* a returned call with a plain fallback on min_neighbors-1 observed cells
\* and, later in the same column, a distance fallback
C8_Witness ==
    /\ pc = "returned"
    /\ \E i, j \in 1..Len(loopst.hist) :
          /\ loopst.hist[i].tag = "fallback"
          /\ loopst.hist[i].n_validos = opts.min_neighbors - 1
          /\ FallbackWritten(loopst.hist[i].columna, loopst.hist[i].fila, "fallback")
          /\ loopst.hist[j].tag = "fallback_distancia"
          /\ FallbackWritten(loopst.hist[j].columna, loopst.hist[j].fila,
                             "fallback_distancia")

-----------------------------------------------------------------------------
(* C9 *)

\* the history entries of a column, in the order the cells were processed
HistCol(col) == SelectSeq(loopst.hist, LAMBDA h : h.columna = col)

\* C9: within one column the missing cells are filled in increasing row
\* order, and the candidate neighbours of the j-th missing cell are exactly
\* the cells observed in the input plus the j-1 cells filled before it in the
\* same pass, with the values written for them; no cell of another column is
\* among them.
C9_IdwSequentialNeighbours ==
    \A col \in LimitCols :
        LET hc == HistCol(col)
            nanseq == SortedSeq(InputNanRows(col))
        IN /\ Len(hc) <= Len(nanseq)
           /\ \A j \in 1..Len(hc) :
                 /\ hc[j].fila = nanseq[j]
                 /\ hc[j].vecinos =
                       {<<r, df_in[col][r].v>> : r \in Rows \ InputNanRows(col)}
                       \cup {<<hc[m].fila, hc[m].valor_final>> : m \in 1..(j - 1)}
                 /\ Cardinality(hc[j].vecinos) = ObservedAtStart(col) + (j - 1)

\* two columns processed, the second missing cell of one of them having seen
\* the value written for the first
C9_Witness ==
    /\ pc = "returned"
    /\ Len(HistCol("Zn")) >= 1
    /\ Len(HistCol("Cu")) >= 2
    /\ HistCol("Cu")[2].tag = "idw"
    /\ <<HistCol("Cu")[1].fila, HistCol("Cu")[1].valor_final>> \in HistCol("Cu")[2].vecinos

-----------------------------------------------------------------------------
(* lrem.py: aplicar_lrem_robusto, reemplazar_lod_lrem *)

\* rows of the tables the EM engine is given: one more than three complete
\* rows, so that ini_method "complete_obs" can pass with a censored row left
NSamples == NRows + 1

\* n_samples = len(df)
TableLen(table) == Len(table[CHOOSE c \in DOMAIN table : TRUE])

\* cols_lod = [col for col in lod_info.keys() if col in df.columns]
ColsLod(li, table) == SelectSeq([i \in 1..Len(li) |-> li[i].col],
                                LAMBDA c : c \in DOMAIN table)

\* the composition matrix X: the columns cols_lod of a table
Matrix(table, cols) == [i \in 1..Len(cols) |-> table[cols[i]]]

\* the rows of a matrix
MatrixRows(X) == IF X = <<>> THEN {} ELSE 1..Len(X[1])

HasNaN(X) == \E j \in 1..Len(X) : \E r \in 1..Len(X[j]) : IsNa(X[j][r])

\* rows complete over cols_lod (mask_complete)
CompleteRows(X) ==
    {r \in MatrixRows(X) : \A j \in 1..Len(X) : ~IsNa(X[j][r])}

\* tolerance and relative_change are in units of 1/RcScale
RcScale == 10^4

\* relative_change = np.abs(X_new - X_prev).max() / (np.abs(X_prev).max() + 1e-10):
\* NaN as soon as a cell is NaN (ndarray.max propagates it)
RelativeChange(X_new, X_prev) ==
    IF HasNaN(X_new) \/ HasNaN(X_prev) THEN FNaN
    ELSE LET cells == {<<j, r>> : j \in 1..Len(X_new), r \in MatrixRows(X_new)}
             maxdiff == SetMax({Abs(X_new[c[1]][c[2]].v - X_prev[c[1]][c[2]].v) : c \in cells})
             maxprev == SetMax({Abs(X_prev[c[1]][c[2]].v) : c \in cells})
         IN Fin((maxdiff * RcScale) \div Max(maxprev, 1))

\* x < tolerance (False on NaN)
LessThan(x, tolerance) == x.k = "-inf" \/ (x.k = "fin" /\ x.v < tolerance)

\* np.log and np.exp work on numbers in units of 1/LnScale
LnScale == 10^4

\* log(2), in units of 1/LnScale
Ln2 == 6931

\* the k with 2^k <= v < 2^(k+1)
RECURSIVE FloorLog2(_)
FloorLog2(v) == IF v < 2 THEN 0 ELSE 1 + FloorLog2(v \div 2)

\* np.log(v) of an integer v >= 1, in units of 1/LnScale: v = 2^k * m with
\* 1 <= m < 2, log(m) = 2 * atanh((m - 1) / (m + 1)) by its series
Ln(v) ==
    LET k == FloorLog2(v)
        m == (v * LnScale) \div 2^k
        z == ((m - LnScale) * LnScale) \div (m + LnScale)
        z2 == (z * z) \div LnScale
        z3 == (z2 * z) \div LnScale
        z5 == (z3 * z2) \div LnScale
        z7 == (z5 * z2) \div LnScale
    IN k * Ln2 + 2 * (z + z3 \div 3 + z5 \div 5 + z7 \div 7)

\* np.exp(y), y and the result in units of 1/LnScale: y = k * log(2) + r with
\* 0 <= r < log(2), exp(r) by its series
Exp(y) ==
    LET k == y \div Ln2
        r == y - k * Ln2
        r2 == (r * r) \div LnScale
        r3 == (r2 * r) \div LnScale
        r4 == (r3 * r) \div LnScale
        r5 == (r4 * r) \div LnScale
        e == LnScale + r + r2 \div 2 + r3 \div 6 + r4 \div 24 + r5 \div 120
    IN IF k >= 0 THEN e * 2^k ELSE e \div 2^(-k)

\* X_pos = np.maximum(X_comp, 1e-10): a cell that is not positive is raised
\* to the smallest positive number of the model
XPos(v) == Max(v, 1)

\* alr_transform: np.log(X_pos[:, :-1] / X_pos[:, -1:]), the last column the
\* divisor; a NaN in the cell or in the divisor gives NaN
AlrTransform(X) ==
    LET n == Len(X) IN
    [j \in 1..(n - 1) |-> [r \in 1..Len(X[j]) |->
        IF IsNa(X[j][r]) \/ IsNa(X[n][r]) THEN NaN
        ELSE Num(Ln(XPos(X[j][r].v)) - Ln(XPos(X[n][r].v)))]]

\* alr_inverse: Y_exp * x_last / denominator for the first columns and
\* x_last / denominator for the last, denominator = 1 + Y_exp.sum(axis=1);
\* a NaN in the row makes the denominator, and with it the whole row, NaN
AlrInverse(Y, x_last) ==
    LET n == Len(Y) + 1
        nan(r) == IsNa(x_last[r]) \/ \E j \in 1..Len(Y) : IsNa(Y[j][r])
        denominator(r) == LnScale + SeqSum([j \in 1..Len(Y) |-> Exp(Y[j][r].v)])
    IN [j \in 1..n |-> [r \in 1..Len(x_last) |->
          IF nan(r) THEN NaN
          ELSE IF j < n
          THEN Num((Exp(Y[j][r].v) * x_last[r].v) \div denominator(r))
          ELSE Num((LnScale * x_last[r].v) \div denominator(r))]]

\* censored_mask = df[cols_lod].isna().values, on the caller's table
CensoredMask(table, cols) ==
    [j \in 1..Len(cols) |-> [r \in 1..Len(table[cols[j]]) |->
        IsNa(table[cols[j]][r])]]

\* censored_i: the censored alr-coordinates of a row (last column excluded)
CensoredI(mask, r) == {j \in 1..(Len(mask) - 1) : mask[j][r]}

\* mu = np.mean(Y, axis=0): NaN for a coordinate that has a NaN in some row
Mu(Y) ==
    [j \in 1..Len(Y) |->
        IF \E r \in 1..Len(Y[j]) : IsNa(Y[j][r]) THEN NaN
        ELSE Num(SeqSum([r \in 1..Len(Y[j]) |-> Y[j][r].v]) \div Len(Y[j]))]

\* rows with a censored and an observed alr-coordinate: the rows of the
\* conditional imputation
MixedRows(mask) ==
    {r \in 1..Len(mask[1]) :
        /\ CensoredI(mask, r) # {}
        /\ CensoredI(mask, r) # 1..(Len(mask) - 1)}

\* Sigma_oo of a row holds a NaN: a NaN in a column of Y the row observes
SigmaOoNaN(Y, mask, r) ==
    \E j \in (1..Len(Y)) \ CensoredI(mask, r) : \E k \in 1..Len(Y[j]) : IsNa(Y[j][k])

\* Y after the M-step when no row raised: a censored coordinate holds mu, in
\* a row with all of its coordinates censored and in a row whose conditional
\* imputation fell back on the unconditional mean
MStepMu(Y, mask) ==
    [j \in 1..Len(Y) |-> [r \in 1..Len(Y[j]) |->
        IF j \in CensoredI(mask, r) THEN Mu(Y)[j] ELSE Y[j][r]]]

\* The conditional imputation of a row evaluates "cols_lod[cens_idx]", a
\* list indexed by a boolean array: TypeError, which the "except
\* np.linalg.LinAlgError" does not catch.  It is reached unless np.linalg.pinv
\* raised LinAlgError before, which it may do on a Sigma_oo that holds a NaN.
\* The errors one M-step can end with:
CondRaises(Y, mask) ==
    IF MixedRows(mask) = {} THEN {}
    ELSE IF \A r \in MixedRows(mask) : SigmaOoNaN(Y, mask, r)
    THEN {"", "TypeError"}
    ELSE {"TypeError"}

\* one iteration up to X_new: alr_transform, mu, the M-step, alr_inverse.
\* Its outcomes: an exception, or X_new
EMStep(X, mask) ==
    LET Y == AlrTransform(X)
        done == [err |-> "", X_new |-> AlrInverse(MStepMu(Y, mask), X[Len(X)])]
    IN IF CondRaises(Y, mask) = {} THEN {done}
       ELSE {IF e = "" THEN done ELSE [err |-> e, X_new |-> X] :
                e \in CondRaises(Y, mask)}

\* the value np.random.uniform(0.95, 1.05) gives for an output class
UniformAt(k) == IF k <= 2 THEN 95 ELSE 105

\* frac, in hundredths (default 0.65)
FracDefault == 65

\* mutant of LoopGuard: "<=" for "<" in the iteration bound
LoopGuardLe(converged, iteration, max_iter) ==
    ~converged /\ iteration <= max_iter

\* while not converged and iteration < max_iter
LoopGuard(converged, iteration, max_iter) ==
    ~converged /\ iteration < max_iter

LremOpts ==
    {[metodo |-> "lrem", kw |-> "direct", entry |-> "lrem", tolerance |-> tol,
      max_iter |-> mi, frac |-> FracDefault, ini_method |-> im] :
        tol \in {1, 2000}, mi \in 0..MaxIter, im \in {"multRepl", "complete_obs"}}

\* tables of three limit columns (Pb, Zn and the reference Cu): a row with
\* Pb censored and Zn observed; a row with Pb and Zn both censored; and, one
\* row longer, a row with Pb censored and another with Zn censored
LremTables3 ==
    { [c \in {"Pb", "Zn", "Cu"} |-> [r \in 1..NSamples |->
          IF c = "Pb" /\ r = 1 THEN NaN
          ELSE IF c = "Pb" THEN Num(5000)
          ELSE IF c = "Zn" THEN Num(3000) ELSE Num(20000)]],
      [c \in {"Pb", "Zn", "Cu"} |-> [r \in 1..NSamples |->
          IF c \in {"Pb", "Zn"} /\ r = 1 THEN NaN
          ELSE IF c = "Pb" THEN Num(5000)
          ELSE IF c = "Zn" THEN Num(3000) ELSE Num(20000)]],
      [c \in {"Pb", "Zn", "Cu"} |-> [r \in 1..(NSamples + 1) |->
          IF (c = "Pb" /\ r = 1) \/ (c = "Zn" /\ r = 2) THEN NaN
          ELSE IF c = "Pb" THEN Num(5000)
          ELSE IF c = "Zn" THEN Num(3000) ELSE Num(20000)]] }

\* tables of the EM engine: of NSamples rows with a censored cell in either
\* column at most, of NRows rows with a column censored in every row, and of
\* 2 rows (no more rows than columns)
LremTables ==
    {[c \in {"Cu", "Zn"} |-> IF c = "Cu" THEN cu ELSE zn] :
        cu \in {[r \in 1..NSamples |-> Num(20000)],
                [r \in 1..NSamples |-> IF r = 1 THEN NaN ELSE Num(20000)]},
        zn \in {[r \in 1..NSamples |-> Num(3000)],
                [r \in 1..NSamples |-> IF r = 2 THEN NaN ELSE Num(3000)]}}
    \cup {[c \in {"Cu", "Zn"} |->
              IF c = "Cu" THEN [r \in 1..NRows |-> NaN]
              ELSE [r \in 1..NRows |-> Num(3000)]]}
    \cup {[c \in {"Cu", "Zn"} |-> <<NaN, Num(20000)>>]}
    \cup LremTables3


LremLimitMaps ==
    { <<[col |-> "Cu", lod |-> 10000], [col |-> "Zn", lod |-> 1500]>>,
      <<[col |-> "Cu", lod |-> 10000]>>,
      <<[col |-> "Pb", lod |-> 10000], [col |-> "Zn", lod |-> 1500],
        [col |-> "Cu", lod |-> 1000]>> }

NewEm == [iteration |-> 0, converged |-> FALSE, relative_change |-> FNaN,
          bound |-> FALSE, X |-> <<>>, X_prev |-> <<>>, robusto |-> FALSE]

InitLrem ==
    /\ pc \in {"lrem", "lrem_robusto", "dispatch"}
    /\ opts \in {[o EXCEPT !.kw = IF pc = "dispatch" THEN "metodo" ELSE "direct",
                             !.entry = pc] :
                   o \in LremOpts}
    /\ df \in LremTables
    /\ df_in = df
    /\ lod_info \in LremLimitMaps
    /\ df_coords = CoordsNone
    /\ df_resultado = df
    /\ log_reemplazos = <<>>
    /\ col_i = 1
    /\ loopst = NoLoop
    /\ em = NewEm
    /\ exc = ""
    /\ rng = RngUnknown
    /\ ret = <<>>

\* the position, among the draws of the initialisation, of the draw for a
\* censored cell <<column, row>>: the columns in order, the rows of a column
\* ascending
DrawPosition(cells, c) ==
    Cardinality({d \in cells : d[1] < c[1] \/ (d[1] = c[1] /\ d[2] <= c[2])})

\* an exception raised inside reemplazar_lod_lrem: it propagates from a direct
\* call; aplicar_lrem_robusto catches it and its fallback imports
\* reemplazar_lod_multiplicativo, which is defined nowhere (ImportError)
LremRaise(e) == IF em.robusto THEN "ImportError" ELSE e

\* mutant of RobustoRejects: the test of a column censored in every row
\* left out
RobustoRejectsNoAllNaN(cols_lod, table) ==
    \/ Len(cols_lod) < 2
    \/ TableLen(table) <= Len(cols_lod)

\* mutant of RobustoRejects: no validation at all
RobustoRejectsNever(cols_lod, table) == FALSE

\* the validations of aplicar_lrem_robusto: fewer than 2 columns, no more
\* rows than columns, a column missing in every row
RobustoRejects(cols_lod, table) ==
    \/ Len(cols_lod) < 2
    \/ TableLen(table) <= Len(cols_lod)
    \/ \E i \in 1..Len(cols_lod) :
          NanRows(table[cols_lod[i]]) = 1..TableLen(table)

\* aplicar_lrem_robusto: the validations, then the call of the engine
LremRobusto ==
    /\ pc = "lrem_robusto"
    /\ LET cols_lod == ColsLod(lod_info, df)
       IN IF RobustoRejects(cols_lod, df)
          THEN pc' = "raised" /\ exc' = "ValueError" /\ em' = em
          ELSE pc' = "lrem" /\ exc' = exc /\ em' = [em EXCEPT !.robusto = TRUE]
    /\ UNCHANGED <<df_in, df, lod_info, opts, df_coords, df_resultado,
                   log_reemplazos, col_i, loopst>>
    /\ UNCHANGED <<rng, ret>>

\* reemplazar_lod_lrem up to the loop: the validations, the initialisation,
\* X, X_prev, converged and iteration
LremStart ==
    /\ pc = "lrem"
    /\ LET cols_lod == ColsLod(lod_info, df)
           X0 == Matrix(df, cols_lod)
           censored == {c \in (1..Len(cols_lod)) \X (1..TableLen(df)) :
                           IsNa(X0[c[1]][c[2]])}
       IN IF Len(cols_lod) < 2 \/ TableLen(df) <= Len(cols_lod)
          THEN /\ pc' = "raised" /\ exc' = LremRaise("ValueError")
               /\ UNCHANGED <<em, df_resultado, rng>>
          ELSE IF opts.ini_method = "multRepl"
          THEN \E f \in RngOutputs(rng, Cardinality(censored)) :
                 LET u == [c \in censored |-> UniformAt(f[DrawPosition(censored, c)])]
                     X == [j \in 1..Len(cols_lod) |-> [r \in 1..TableLen(df) |->
                             IF IsNa(X0[j][r])
                             THEN Num((((opts.frac * Lod(lod_info, cols_lod[j])) \div 100)
                                        * u[<<j, r>>]) \div 100)
                             ELSE X0[j][r]]]
                 IN /\ em' = [em EXCEPT !.X = X, !.X_prev = X]
                    /\ rng' = RngAfter(rng, f)
                    /\ pc' = "lrem_loop" /\ exc' = exc
                    /\ UNCHANGED df_resultado
          ELSE IF opts.ini_method = "complete_obs" /\ Cardinality(CompleteRows(X0)) < 3
          THEN /\ pc' = "raised" /\ exc' = LremRaise("ValueError")
               /\ UNCHANGED <<em, df_resultado, rng>>
          ELSE /\ em' = [em EXCEPT !.X = X0, !.X_prev = X0]
               /\ pc' = "lrem_loop" /\ exc' = exc
               /\ UNCHANGED <<df_resultado, rng>>
    /\ UNCHANGED <<df_in, df, lod_info, opts, df_coords, log_reemplazos,
                   col_i, loopst, ret>>

\* one pass of the while loop; an exception of the M-step ends the call
LremIter ==
    /\ pc = "lrem_loop"
    /\ LoopGuard(em.converged, em.iteration, opts.max_iter)
    /\ \E out \in EMStep(em.X, CensoredMask(df, ColsLod(lod_info, df))) :
          IF out.err # ""
          THEN /\ pc' = "raised" /\ exc' = LremRaise(out.err)
               /\ em' = [em EXCEPT !.iteration = em.iteration + 1]
          ELSE LET relative_change == RelativeChange(out.X_new, em.X_prev)
               IN /\ em' = [em EXCEPT
                      !.iteration = em.iteration + 1,
                      !.relative_change = relative_change,
                      !.bound = TRUE,
                      !.converged = IF LessThan(relative_change, opts.tolerance)
                                    THEN TRUE ELSE em.converged,
                      !.X_prev = em.X,
                      !.X = out.X_new]
                  /\ pc' = pc /\ exc' = exc
    /\ UNCHANGED <<df_in, df, lod_info, opts, df_coords, df_resultado,
                   log_reemplazos, col_i, loopst>>
    /\ UNCHANGED <<rng, ret>>

\* after the loop: df_result, the log, and the message printed when the loop
\* did not converge, which formats relative_change: a name the function has
\* not bound when the loop body never ran (UnboundLocalError)
LremFinish ==
    /\ pc = "lrem_loop"
    /\ ~LoopGuard(em.converged, em.iteration, opts.max_iter)
    /\ LET cols_lod == ColsLod(lod_info, df)
           result == [c \in DOMAIN df |->
                        IF \E j \in 1..Len(cols_lod) : cols_lod[j] = c
                        THEN em.X[CHOOSE j \in 1..Len(cols_lod) : cols_lod[j] = c]
                        ELSE df[c]]
           log_df == <<[metodo |-> "lrEM",
                        converged |-> em.converged,
                        iterations |-> em.iteration,
                        tolerance_achieved |->
                            IF em.iteration > 0 THEN em.relative_change ELSE FNaN,
                        ini_method |-> opts.ini_method]>>
       IN IF ~em.converged /\ ~em.bound
          THEN /\ pc' = "raised" /\ exc' = LremRaise("UnboundLocalError")
               /\ UNCHANGED <<df_resultado, log_reemplazos>>
          ELSE /\ pc' = "returned" /\ exc' = exc
               /\ df_resultado' = result
               /\ log_reemplazos' = log_df
    /\ df' = CallerTable(df, df_resultado')
    /\ UNCHANGED <<df_in, lod_info, opts, df_coords, col_i, loopst, em>>
    /\ UNCHANGED <<rng, ret>>

NextLrem == Dispatch \/ LremRobusto \/ LremStart \/ LremIter \/ LremFinish

SpecLrem == InitLrem /\ [][NextLrem]_vars

-----------------------------------------------------------------------------
(* C10 *)

\* C10: the EM loop ends after at most max_iter iterations: the iteration
\* count never exceeds max_iter and no further iteration is taken once it is
\* reached; the iteration count the log reports is at most max_iter, and the
\* converged flag it reports is True iff the relative change of the last
\* executed iteration was below tolerance.
C10_LremLoopBound ==
    /\ em.iteration <= opts.max_iter
    /\ pc = "returned" =>
          /\ log_reemplazos[1].iterations = em.iteration
          /\ log_reemplazos[1].iterations <= opts.max_iter
          /\ log_reemplazos[1].converged <=>
                (/\ em.iteration >= 1
                 /\ em.relative_change.k = "fin"
                 /\ em.relative_change.v < opts.tolerance)

\* a returned call that never met the tolerance in max_iter >= 2 iterations
C10_Witness ==
    /\ pc = "returned"
    /\ opts.max_iter >= 2
    /\ log_reemplazos[1].iterations = opts.max_iter
    /\ ~log_reemplazos[1].converged
    /\ em.relative_change.k = "fin"

\* a returned call that converged before max_iter
C10_WitnessConverged ==
    /\ pc = "returned"
    /\ log_reemplazos[1].converged
    /\ log_reemplazos[1].iterations < opts.max_iter

-----------------------------------------------------------------------------
(* C11 *)

\* the call has ended after the EM loop was entered (its validations and its
\* initialisation passed) and the loop never met the tolerance
LoopEndedUnconverged ==
    /\ pc \in {"returned", "raised"}
    /\ em.X # <<>>
    /\ ~em.converged

\* C11: whenever the EM loop ends without the tolerance having been met, for
\* every max_iter including 0, the call does not raise: it returns the last
\* iterate as the imputed table and a log whose converged field is False.
C11_LremNonConvergenceReturns ==
    LoopEndedUnconverged =>
        /\ pc = "returned"
        /\ \A j \in 1..Len(ColsLod(lod_info, df)) :
              df_resultado[ColsLod(lod_info, df)[j]] = em.X[j]
        /\ log_reemplazos[1].converged = FALSE

-----------------------------------------------------------------------------
(* C12 *)

\* C12: the table reemplazar_lod_lrem returns has no missing cell in a column
\* of the limit mapping, for ini_method "multRepl" and for "complete_obs"
\* (which only starts with at least 3 complete rows).
C12_LremNoMissing ==
    (pc = "returned" /\ em.X # <<>>) =>
        \A col \in LimitCols : NanRows(df_resultado[col]) = {}

-----------------------------------------------------------------------------
(* C13 *)

\* the three conditions of C13, on the caller's table and limit mapping
FewColumns == Len(ColsLod(lod_info, df_in)) < 2
FewRows == TableLen(df_in) <= Len(ColsLod(lod_info, df_in))
AllMissingColumn ==
    \E col \in LimitCols : NanRows(df_in[col]) = 1..TableLen(df_in)

\* the dispatcher could not import the module lrem
LremNotFound ==
    opts.entry = "dispatch" /\ pc = "raised" /\ exc = "ImportError" /\ ~em.robusto

\* the call went through aplicar_lrem_robusto and has left its validations
RobustoValidated ==
    /\ opts.entry \in {"lrem_robusto", "dispatch"}
    /\ pc \notin {"lrem_robusto", "dispatch"}
    /\ ~LremNotFound

\* C13: a call of aplicar_lrem_robusto with fewer than 2 limit columns in the
\* table, or no more rows than such columns, or such a column missing in every
\* row, ends with ValueError: no initialisation draw is made, no iteration is
\* run, no table and no log are returned.
C13_LremRobustoRejects ==
    (RobustoValidated /\ (FewColumns \/ FewRows \/ AllMissingColumn)) =>
        /\ pc = "raised"
        /\ exc = "ValueError"
        /\ em = NewEm
        /\ df_resultado = df_in
        /\ log_reemplazos = <<>>

\* a rejected call whose only fault is a column missing in every row
C13_Witness ==
    /\ RobustoValidated
    /\ pc = "raised"
    /\ AllMissingColumn
    /\ ~FewColumns
    /\ ~FewRows

-----------------------------------------------------------------------------
(* One call after another, of the dispatcher or of an engine *)

\* calls a caller makes one after the other on the same objects
MaxCalls == 2

Selectors == {"simple", "beta", "lrem", "idw", "multiplicativo", "kriging"}

\* the options of a call, by its entry point: the dispatcher with a selector,
\* or an engine called directly
CallOpts(entry) ==
    {[metodo |-> IF entry = "dispatch" THEN sel ELSE entry,
      kw |-> IF entry = "dispatch" THEN "metodo" ELSE "direct",
      entry |-> entry,
      metodo_simple |-> "sqrt2",
      power |-> 2, md_set |-> FALSE, max_distance |-> 4,
      min_neighbors |-> mn, metodo_c |-> "div2",
      tolerance |-> 200, max_iter |-> mi, frac |-> FracDefault,
      ini_method |-> "multRepl"] :
        sel \in Selectors, mn \in {1, 3}, mi \in {0, 1}}

EntryPoints == {"dispatch", "simple", "beta", "idw", "lrem", "lrem_robusto"}

CallLimitMaps ==
    { <<>>,
      <<[col |-> "Cu", lod |-> 10000]>>,
      <<[col |-> "Zn", lod |-> 10000], [col |-> "Cu", lod |-> 1500]>> }

\* the tables of a call: no missing cell, one missing cell, missing cells in
\* both columns
CallTables ==
    { [c \in {"Cu", "Zn"} |-> [r \in Rows |-> Num(20000)]],
      [c \in {"Cu", "Zn"} |->
          [r \in Rows |-> IF c = "Cu" /\ r = 1 THEN NaN ELSE Num(20000)]],
      [c \in {"Cu", "Zn"} |->
          [r \in Rows |-> IF c = "Cu" /\ r <= 2 THEN NaN
                          ELSE IF c = "Zn" /\ r = 2 THEN NaN
                          ELSE Num(3000)]] }

\* what the engines' variables hold when a call starts
CallLoop == [est |-> <<>>, pend |-> <<>>, hist |-> <<>>]

InitCall ==
    /\ pc \in EntryPoints
    /\ opts \in CallOpts(pc)
    /\ df \in CallTables
    /\ df_in = df
    /\ lod_info \in CallLimitMaps
    /\ df_coords \in {CoordsNone, Frame(<<>>), Frame(<<CoordX, CoordY>>)}
    /\ df_resultado = df
    /\ log_reemplazos = <<>>
    /\ col_i = 1
    /\ loopst = CallLoop
    /\ em = NewEm
    /\ exc = ""
    /\ rng = RngUnknown
    /\ ret = <<>>

\* the caller makes the same call again with the same objects; ret keeps,
\* of the call that has ended, the table it was given and how it ended
CallAgain ==
    /\ pc \in {"returned", "raised"}
    /\ Len(ret) < MaxCalls - 1
    /\ ret' = Append(ret, [df_in |-> df_in, outcome |-> pc, exc |-> exc])
    /\ pc' = opts.entry
    /\ df_in' = df
    /\ df_resultado' = df
    /\ log_reemplazos' = <<>>
    /\ col_i' = 1
    /\ loopst' = CallLoop
    /\ em' = NewEm
    /\ exc' = ""
    /\ UNCHANGED <<df, lod_info, opts, df_coords, rng>>

NextCall ==
    \/ Dispatch
    \/ SimpleStart \/ SimpleColumn \/ SimpleReturn
    \/ BetaColumn \/ BetaReturn
    \/ IdwStart \/ IdwColumn \/ IdwCell \/ IdwReturn
    \/ LremRobusto \/ LremStart \/ LremIter \/ LremFinish
    \/ CallAgain

SpecCall == InitCall /\ [][NextCall]_vars

-----------------------------------------------------------------------------
(* C14 *)

\* the call came in through the dispatcher with a selector that is none of
\* 'simple', 'beta', 'lrem', 'idw', and the dispatcher has acted
UnknownSelectorDone ==
    /\ opts.entry = "dispatch"
    /\ opts.kw = "metodo"
    /\ opts.metodo \notin {"simple", "beta", "lrem", "idw"}
    /\ pc # "dispatch"

\* C14: for every selector that is not 'simple', 'beta', 'lrem' or 'idw',
\* 'multiplicativo' included, the dispatcher raises ValueError (method not
\* recognised): no engine runs, no table and no log are returned.
C14_UnknownSelectorRejected ==
    UnknownSelectorDone =>
        /\ pc = "raised"
        /\ exc = "ValueError"
        /\ df_resultado = df_in
        /\ log_reemplazos = <<>>

-----------------------------------------------------------------------------
(* C15 *)

\* an idw request (to the dispatcher or to reemplazar_lod_idw) whose
\* coordinate table is absent, empty or of fewer than 2 columns has passed the
\* validations
BadCoordsDone ==
    /\ opts.metodo = "idw"
    /\ \/ df_coords.kind = "None"
       \/ FrameEmpty(df_coords)
       \/ Len(df_coords.cols) < 2
    /\ pc \notin {"dispatch", "idw"}

\* C15: an idw request with the coordinate table absent, empty or of fewer
\* than 2 columns, made through the dispatcher or directly, raises ValueError
\* before any cell is written and before any log record is produced.
C15_IdwBadCoordsRejected ==
    BadCoordsDone =>
        /\ pc = "raised"
        /\ exc = "ValueError"
        /\ df_resultado = df_in
        /\ log_reemplazos = <<>>

-----------------------------------------------------------------------------
(* C16 *)

\* C16: no step of an engine call (simple, beta, idw, lrem; direct or through
\* the dispatcher; returning or raising) changes the caller's measurement
\* table, coordinate table or limit mapping: the engine writes to its own
\* copy, and every call of a sequence of calls is given the table the first
\* one was given.
C16_InputsUnchanged ==
    [][/\ df' = df
       /\ lod_info' = lod_info
       /\ df_coords' = df_coords
       /\ df_in' = df'
       /\ \A i \in 1..Len(ret') : ret'[i].df_in = df']_vars

\* a second call has returned a table that differs from the caller's, after
\* a first call that returned too
C16_Witness ==
    /\ pc = "returned"
    /\ Len(ret) = 1
    /\ ret[1].outcome = "returned"
    /\ df_resultado # df
    /\ log_reemplazos # <<>>

-----------------------------------------------------------------------------
(* C17 *)

\* a call of an engine (idw with a two-column coordinate table) on a table
\* without missing cells and with an empty limit mapping has ended
NoOpCallEnded(engines) ==
    /\ lod_info = <<>>
    /\ \A c \in DOMAIN df_in : NanRows(df_in[c]) = {}
    /\ opts.metodo \in engines
    /\ opts.metodo = "idw" =>
          (df_coords.kind = "frame" /\ Len(df_coords.cols) = 2)
    /\ pc \in {"returned", "raised"}

\* the call returned the input cell for cell, with an empty log
ReturnedUnchanged ==
    /\ pc = "returned"
    /\ df_resultado = df_in
    /\ log_reemplazos = <<>>

\* C17 as stated: through each of the four engines a table with no censored
\* cell and an empty limit mapping comes back unchanged with an empty log,
\* and the call does not fail.
C17_NoOpRoundTripAll ==
    NoOpCallEnded({"simple", "beta", "idw", "lrem", "lrem_robusto"}) =>
        ReturnedUnchanged

\* C17 amended: through the simple, beta and idw engines a table with no
\* censored cell and an empty limit mapping comes back unchanged with an
\* empty log and the call does not fail; the LREM engine rejects the empty
\* limit mapping with ValueError (the dispatcher with ImportError when it
\* cannot import the module) and returns nothing.
C17_NoOpRoundTrip ==
    /\ NoOpCallEnded({"simple", "beta", "idw"}) => ReturnedUnchanged
    /\ NoOpCallEnded({"lrem", "lrem_robusto"}) =>
          /\ pc = "raised"
          /\ exc = "ValueError" \/ LremNotFound
          /\ df_resultado = df_in
          /\ log_reemplazos = <<>>

\* the same no-op idw call made twice, through the dispatcher
C17_Witness ==
    /\ NoOpCallEnded({"idw"})
    /\ opts.entry = "dispatch"
    /\ ReturnedUnchanged
    /\ Len(ret) = 1

-----------------------------------------------------------------------------
(* reader.py: extraer_coordenadas *)

\* columns a table passed to extraer_coordenadas has at most
MaxCols == 3

\* str.upper() on the letters the model's column names are written with
UpperChar(ch) ==
    CASE ch = "a" -> "A" [] ch = "e" -> "E" [] ch = "g" -> "G"
      [] ch = "i" -> "I" [] ch = "m" -> "M" [] ch = "n" -> "N"
      [] ch = "s" -> "S" [] ch = "t" -> "T" [] ch = "u" -> "U"
      [] OTHER -> ch

\* c.upper(), a name being the sequence of its characters
Upper(name) == [i \in 1..Len(name) |-> UpperChar(name[i])]

\* ("UTM_E", "UTM_N", "EASTING", "NORTHING")
CoordKeywords ==
    { <<"U", "T", "M", "_", "E">>, <<"U", "T", "M", "_", "N">>,
      <<"E", "A", "S", "T", "I", "N", "G">>,
      <<"N", "O", "R", "T", "H", "I", "N", "G">> }

\* utm_cols = [c for c in columnas if c.upper() in (...)]
UtmCols(columnas) == SelectSeq(columnas, LAMBDA c : Upper(c) \in CoordKeywords)

\* geo_cols = [c for c in columnas if c not in utm_cols]
GeoCols(columnas) == SelectSeq(columnas, LAMBDA c : Upper(c) \notin CoordKeywords)

\* df_coords = df[utm_cols].copy() if utm_cols else pd.DataFrame()
CoordsOf(table, utm_cols) ==
    IF utm_cols # <<>>
    THEN Frame([i \in 1..Len(utm_cols) |-> table[utm_cols[i]]])
    ELSE Frame(<<>>)

\* column names of the tables: keywords in several spellings, a keyword with
\* a trailing blank, and element names
ColumnNames ==
    { <<"U", "T", "M", "_", "E">>, <<"u", "t", "m", "_", "n">>,
      <<"E", "a", "s", "t", "i", "n", "g">>,
      <<"N", "O", "R", "T", "H", "I", "N", "G">>,
      <<"U", "T", "M", "_", "E", " ">>, <<"C", "u">>, <<"Z", "n">> }

\* the headers: up to MaxCols distinct names in any order
Headers ==
    UNION {{h \in [1..n -> ColumnNames] : \A i, j \in 1..n : h[i] = h[j] => i = j} :
             n \in 0..MaxCols}

InitCoords ==
    /\ pc = "extraer"
    /\ loopst \in {[columnas |-> h] : h \in Headers}
    /\ df = [c \in {loopst.columnas[i] : i \in 1..Len(loopst.columnas)} |->
               [r \in Rows |-> Num(r * Scale)]]
    /\ df_in = df
    /\ lod_info = <<>>
    /\ opts = NoOpts
    /\ df_coords = CoordsNone
    /\ df_resultado = df
    /\ log_reemplazos = <<>>
    /\ col_i = 0
    /\ em = NoEm
    /\ exc = ""
    /\ rng = RngUnknown
    /\ ret = <<>>

\* extraer_coordenadas: df_geo is returned in df_resultado, df_coords in
\* df_coords
ExtraerCoordenadas ==
    /\ pc = "extraer"
    /\ LET utm_cols == UtmCols(loopst.columnas)
           geo_cols == GeoCols(loopst.columnas)
       IN /\ df_coords' = CoordsOf(df, utm_cols)
          /\ df_resultado' = [c \in {geo_cols[i] : i \in 1..Len(geo_cols)} |-> df[c]]
    /\ pc' = "extraido"
    /\ UNCHANGED <<df_in, df, lod_info, opts, log_reemplazos, col_i, loopst,
                   em, exc, rng, ret>>

NextCoords == ExtraerCoordenadas

SpecCoords == InitCoords /\ [][NextCoords]_vars

-----------------------------------------------------------------------------
(* C18 *)

\* number of column names of the input that match a keyword, whatever the case
NMatching ==
    Cardinality({i \in 1..Len(loopst.columnas) :
                    Upper(loopst.columnas[i]) \in CoordKeywords})

\* C18: the coordinate table extraer_coordenadas returns has exactly two
\* columns when at least two column names match the keyword set, and no
\* column when zero or one matches; it never has 1 column or more than 2.
C18_CoordsTwoOrNone ==
    pc = "extraido" =>
        /\ NMatching >= 2 => Len(df_coords.cols) = 2
        /\ NMatching <= 1 => df_coords.cols = <<>>
        /\ Len(df_coords.cols) \in {0, 2}

-----------------------------------------------------------------------------
(* A session of calls of reemplazar_lod_simple *)

\* limit mappings of the session's calls: one key, and both key orders
SessionLimitMaps ==
    { <<[col |-> "Cu", lod |-> 10000]>>,
      <<[col |-> "Cu", lod |-> 10000], [col |-> "Zn", lod |-> 1500]>>,
      <<[col |-> "Zn", lod |-> 1500], [col |-> "Cu", lod |-> 10000]>> }

\* A process that makes calls of reemplazar_lod_simple with one table, one
\* limit mapping and one variant; before the first call the generator is in
\* a state the program never fixed
InitSession ==
    /\ pc = "simple"
    /\ df \in CallTables
    /\ df_in = df
    /\ lod_info \in SessionLimitMaps
    /\ opts \in {[metodo |-> v] : v \in {"sqrt2", "div2"}}
    /\ df_coords = CoordsNone
    /\ df_resultado = df
    /\ log_reemplazos = <<>>
    /\ col_i = 1
    /\ loopst = NoLoop
    /\ em = NoEm
    /\ exc = ""
    /\ rng = RngUnknown
    /\ ret = <<>>

\* calls of reemplazar_lod_simple the session has completed
SimpleCalls == {i \in 1..Len(ret) : ret[i].outcome = "returned"}

\* uses of the generator by other code the session has seen
OtherUses == {i \in 1..Len(ret) : ret[i].outcome = "other"}

\* the caller keeps what the call returned and makes the same call again
SessionAgain ==
    /\ pc = "returned"
    /\ Cardinality(SimpleCalls) < MaxCalls - 1
    /\ ret' = Append(ret, [outcome |-> "returned",
                           tabla |-> df_resultado,
                           log |-> log_reemplazos])
    /\ pc' = "simple"
    /\ df_in' = df
    /\ df_resultado' = df
    /\ log_reemplazos' = <<>>
    /\ col_i' = 1
    /\ UNCHANGED <<df, lod_info, opts, df_coords, loopst, em, exc, rng>>

\* Before a call, other code uses the global generator: the unseeded
\* np.random.uniform of the LREM initialisation leaves it in a state off the
\* seeded stream; a call of reemplazar_lod_simple on some other table seeds
\* it and draws from the stream
OtherConsumer ==
    /\ pc = "simple"
    /\ Cardinality(OtherUses) < MaxCalls
    /\ \/ rng' = [rng EXCEPT !.on = FALSE]
       \/ \E m \in 1..2 : \E f \in RngOutputs(Seed42(rng), m) :
             rng' = RngAfter(Seed42(rng), f)
    /\ ret' = Append(ret, [outcome |-> "other"])
    /\ UNCHANGED <<pc, df_in, df, lod_info, opts, df_coords, df_resultado,
                   log_reemplazos, col_i, loopst, em, exc>>

NextSession ==
    \/ SimpleStart \/ SimpleColumn \/ SimpleReturn
    \/ SessionAgain
    \/ OtherConsumer

SpecSession == InitSession /\ [][NextSession]_vars

-----------------------------------------------------------------------------
(* C19 *)

\* C19: two calls of reemplazar_lod_simple with equal table, equal limit
\* mapping (same key order) and equal variant return equal tables and equal
\* logs, whatever uses of the generator happened before or between them.
C19_SimpleDeterministic ==
    pc = "returned" =>
        \A i \in SimpleCalls :
            /\ ret[i].tabla = df_resultado
            /\ ret[i].log = log_reemplazos

\* a second call has returned after another use of the generator came
\* between the two, and both calls replaced cells of two columns
C19_Witness ==
    /\ pc = "returned"
    /\ \E i \in SimpleCalls : \E j \in OtherUses : i < j
    /\ Len(log_reemplazos) = 2
    /\ \E k \in 1..2 : log_reemplazos[k].n_reemplazos = 2
    /\ rng.pos = 3

-----------------------------------------------------------------------------
(* reader.py: cargar_csv, then detectar_lod *)

\* the texts of the fields of the file
LoadFields ==
    { <<>>, <<"n", "u", "l", "l">>, <<"N", "A">>, <<"7">>, <<"1", "2", ".", "5">>,
      <<"<", "5">>, <<"<", "1", "0">>, <<"n", "d">> }

\* fields pd.read_csv reads as missing (among its default na_values), and
\* the texts df.replace([...], np.nan) turns into NaN afterwards
NullTokens ==
    { <<>>, <<"n", "u", "l", "l">>, <<"N", "U", "L", "L">>, <<"N", "a", "N">>,
      <<"N", "A">> }

\* a column as pd.read_csv and the replace leave it: missing fields are NaN,
\* the others are numbers when all of them parse and texts when one does not
LoadColumn(fields) ==
    LET present == {r \in 1..Len(fields) : fields[r] \notin NullTokens}
        numeric == \A r \in present : IsNumericText(fields[r])
    IN [r \in 1..Len(fields) |->
          IF r \notin present THEN NaN
          ELSE IF numeric THEN Num(ToFloat(fields[r]))
          ELSE Str(fields[r])]

ZnFields ==
    { [r \in Rows |-> <<"1", "0", "0">>],
      [r \in Rows |-> IF r = 2 THEN <<"<", "5", "0">> ELSE <<"1", "0", "0">>],
      [r \in Rows |-> IF r = 1 THEN <<>> ELSE <<"1", "2">>] }

\* the file on disk: loopst.fields holds the fields of its columns
InitLoad ==
    /\ pc = "load"
    /\ loopst \in {[fields |-> [c \in {"Cu", "Zn"} |-> IF c = "Cu" THEN cu ELSE zn]] :
                     cu \in [Rows -> LoadFields], zn \in ZnFields}
    /\ df = [c \in {"Cu", "Zn"} |-> [r \in Rows |-> NaN]]
    /\ df_in = df
    /\ lod_info = <<>>
    /\ opts = NoOpts
    /\ df_coords = CoordsNone
    /\ df_resultado = df
    /\ log_reemplazos = <<>>
    /\ col_i = 0
    /\ em = NoEm
    /\ exc = ""
    /\ rng = RngUnknown
    /\ ret = <<>>

\* cargar_csv; its result is the table detectar_lod is given
CargarCsv ==
    /\ pc = "load"
    /\ pc' = "detect"
    /\ df' = [c \in DOMAIN loopst.fields |-> LoadColumn(loopst.fields[c])]
    /\ df_in' = df'
    /\ df_resultado' = df'
    /\ UNCHANGED <<lod_info, opts, df_coords, log_reemplazos, col_i, loopst,
                   em, exc, rng, ret>>

NextLoad == CargarCsv \/ DetectarLod

SpecLoad == InitLoad /\ [][NextLoad]_vars

-----------------------------------------------------------------------------
(* C20 *)

\* C20: in every table produced by cargar_csv followed by detectar_lod, every
\* column that contains at least one missing cell has an entry in the
\* returned limit mapping.
C20_MissingImpliesLimit ==
    pc = "detected" =>
        \A col \in DOMAIN df :
            NanRows(df[col]) # {} => col \in Keys(lod_info)

-----------------------------------------------------------------------------
(* C21 *)

\* C21: every limit that detectar_lod records in the limit mapping is a
\* strictly positive number, for every cell text the below-limit pattern
\* accepts.
C21_LimitsPositive ==
    pc = "detected" => \A i \in 1..Len(lod_info) : lod_info[i].lod > 0

-----------------------------------------------------------------------------
(* C22 *)

\* the cells <<column, row>> of the limit columns that were missing in the
\* caller's table
CensoredCells ==
    {c \in LimitCols \X (1..TableLen(df_in)) : IsNa(df_in[c[1]][c[2]])}

\* C22: in the table reemplazar_lod_lrem returns, every cell that was
\* censored in the input holds a value that does not exceed the detection
\* limit of its column, the reference (last) column and the rows whose
\* alr-coordinates are all censored included.
C22_LremBelowLimit ==
    (pc = "returned" /\ em.X # <<>>) =>
        \A c \in CensoredCells :
            /\ ~IsNa(df_resultado[c[1]][c[2]])
            /\ df_resultado[c[1]][c[2]].v <= Lod(lod_info, c[1])

-----------------------------------------------------------------------------
(* C23 *)

\* rows of column col in which the engine replaced a missing cell
ReplacedRows(col) ==
    IF col \notin DOMAIN df_in THEN {}
    ELSE {r \in 1..Len(df_in[col]) :
             IsNa(df_in[col][r]) /\ ~IsNa(df_resultado[col][r])}

\* the columns with a replaced cell, in limit-mapping order
ReplacedColumns ==
    SelectSeq([i \in 1..Len(lod_info) |-> lod_info[i].col],
              LAMBDA c : ReplacedRows(c) # {})

\* the replaced cells <<column, row>>, in limit-mapping order, then row order
RECURSIVE ReplacedCellsFrom(_)
ReplacedCellsFrom(i) ==
    IF i > Len(lod_info) THEN <<>>
    ELSE LET col == lod_info[i].col
             rows == SortedSeq(ReplacedRows(col))
         IN [k \in 1..Len(rows) |-> <<col, rows[k]>>] \o ReplacedCellsFrom(i + 1)

\* the log is one of per-cell records (the idw engine's, which carry 'fila')
LogByCell ==
    log_reemplazos # <<>> /\ "fila" \in DOMAIN log_reemplazos[1]

\* C23: the log the simple and beta engines return holds exactly one record
\* for each column in which the engine replaced at least one cell, and the
\* log of the idw engine exactly one record for each cell it replaced, in
\* processing order (limit-mapping order, then row order); no replaced
\* column or cell lacks a record.
C23_LogComplete ==
    pc = "returned" =>
        IF LogByCell
        THEN [i \in 1..Len(log_reemplazos) |->
                <<log_reemplazos[i].columna, log_reemplazos[i].fila>>]
             = ReplacedCellsFrom(1)
        ELSE [i \in 1..Len(log_reemplazos) |-> log_reemplazos[i].columna]
             = ReplacedColumns

-----------------------------------------------------------------------------
(* C24 *)

\* C24: at every iteration t >= 1 the relative change is computed between
\* the iterate produced by iteration t and the iterate of iteration t-1 (the
\* initialised table for t = 1): at the test of iteration t the variable
\* X_prev holds iterate t-1, the X the iteration started from.
C24_LremPrevIterate ==
    [][(pc = "lrem_loop" /\ pc' = "lrem_loop" /\ em'.iteration = em.iteration + 1) =>
          /\ em.X_prev = em.X
          /\ em'.relative_change = RelativeChange(em'.X, em.X)]_vars

-----------------------------------------------------------------------------
(* C25 *)

\* the EM loop has run an M-step on a table that has a row with an observed
\* and a censored alr-coordinate
MixedRowStepped ==
    /\ em.X # <<>>
    /\ em.iteration >= 1
    /\ MixedRows(CensoredMask(df_in, ColsLod(lod_info, df_in))) # {}

\* C25: for every row that has at least one observed and at least one
\* censored alr-coordinate (3 or more limit columns), the M-step completes
\* without error (and sets each censored coordinate to the truncated
\* conditional mean, or to the unconditional mean after a linear-algebra
\* failure): the call does not end with an exception of the M-step.
C25_LremConditionalStep ==
    MixedRowStepped => pc # "raised"

-----------------------------------------------------------------------------
(* C26 *)

\* two values of the composition that are equal up to the precision the
\* logarithm and the exponential are computed with (one part in a hundred)
SameValue(a, b) == Abs(a - b) <= Max(a, b) \div 100 + 1

\* two matrices with equal cells in the rows R
SameRows(X1, X2, R) ==
    \A j \in 1..Len(X1) : \A r \in R :
        /\ ~IsNa(X1[j][r])
        /\ ~IsNa(X2[j][r])
        /\ SameValue(X1[j][r].v, X2[j][r].v)

\* every entry of the matrix is a strictly positive number
StrictlyPositive(X) ==
    X # <<>> /\ \A j \in 1..Len(X) : \A r \in 1..Len(X[j]) :
                  ~IsNa(X[j][r]) /\ X[j][r].v > 0

\* rows of the caller's table with no censored alr-coordinate: the M-step
\* leaves their alr-coordinates as alr_transform gave them
UntouchedRows ==
    {r \in 1..TableLen(df_in) :
        CensoredI(CensoredMask(df_in, ColsLod(lod_info, df_in)), r) = {}}

\* C26: for every composition matrix X with strictly positive entries,
\* alr_inverse(alr_transform(X), last column of X) equals X; consequently a
\* row whose alr-coordinates the M-step did not change is carried unchanged
\* from one EM iterate to the next (after an iteration X_prev holds the
\* iterate it started from and X the one it produced).
C26_AlrRoundTrip ==
    /\ StrictlyPositive(em.X) =>
          SameRows(AlrInverse(AlrTransform(em.X), em.X[Len(em.X)]), em.X,
                   MatrixRows(em.X))
    /\ (em.iteration >= 1 /\ pc # "raised" /\ StrictlyPositive(em.X_prev)) =>
          SameRows(em.X, em.X_prev, UntouchedRows)

-----------------------------------------------------------------------------
(* C27 *)

\* an LREM request with ini_method 'complete_obs' and fewer than 3 rows
\* complete over the limit columns passed the validations of
\* aplicar_lrem_robusto, and the call has ended
FewCompleteEnded ==
    /\ em.robusto
    /\ opts.ini_method = "complete_obs"
    /\ Cardinality(CompleteRows(Matrix(df_in, ColsLod(lod_info, df_in)))) < 3
    /\ pc \in {"returned", "raised"}

\* C27: with ini_method='complete_obs' and fewer than 3 rows complete over
\* the limit columns, an LREM request made through aplicar_lrem_robusto (and
\* hence through the dispatcher) aborts with the input-validation error
\* (ValueError); no other kind of error replaces it and no table is returned.
C27_LremValidationPropagates ==
    FewCompleteEnded =>
        /\ pc = "raised"
        /\ exc = "ValueError"
        /\ df_resultado = df_in
        /\ log_reemplazos = <<>>

-----------------------------------------------------------------------------
(* C28 *)

\* C28: in the table reemplazar_lod_lrem returns, every cell of a limit
\* column that was observed (not missing) in the input has the same value as
\* in the input, after any number of EM iterations; only cells that were
\* censored in the input may differ.
C28_LremFrame ==
    (pc = "returned" /\ em.X # <<>>) =>
        \A col \in LimitCols : \A r \in 1..TableLen(df_in) :
            ~IsNa(df_in[col][r]) =>
                /\ ~IsNa(df_resultado[col][r])
                /\ SameValue(df_resultado[col][r].v, df_in[col][r].v)

-----------------------------------------------------------------------------
(* C29 *)

\* C29: with max_distance unset, in a column with n_obs >= 1 originally
\* observed cells the number of candidate neighbours grows by exactly one
\* with each filled cell, so exactly the first max(0, min_neighbors - n_obs)
\* missing cells in row order receive the fallback value C and every later
\* missing cell of the column is interpolated.
C29_IdwFallbackPrefix ==
    (pc \in {"idw_col", "idw_cell", "returned"} /\ ~opts.md_set) =>
        \A col \in LimitCols :
            ObservedAtStart(col) >= 1 =>
                LET h == HistCol(col)
                    n_obs == ObservedAtStart(col)
                    k == Max(0, opts.min_neighbors - n_obs)
                    missing == SortedSeq(InputNanRows(col))
                IN /\ Len(h) <= Len(missing)
                   /\ pc = "returned" => Len(h) = Len(missing)
                   /\ \A j \in 1..Len(h) :
                         /\ h[j].fila = missing[j]
                         /\ h[j].n_validos = n_obs + j - 1
                         /\ j <= k => /\ h[j].tag = "fallback"
                                      /\ FallbackWritten(col, h[j].fila, "fallback")
                         /\ j > k => h[j].tag = "idw"

\* a returned call, max_distance unset, in which the first missing cell of
\* Cu received the fallback and the second was interpolated
C29_Witness ==
    /\ pc = "returned"
    /\ ~opts.md_set
    /\ Len(HistCol("Cu")) = 2
    /\ HistCol("Cu")[1].tag = "fallback"
    /\ HistCol("Cu")[2].tag = "idw"

-----------------------------------------------------------------------------
(* A session of calls of reemplazar_lod_lrem *)

\* tables of the session's calls: one censored cell, in Cu or in the
\* reference column Zn
LremSessionTables ==
    { [c \in {"Cu", "Zn"} |-> [r \in 1..NSamples |->
          IF c = "Cu" /\ r = 1 THEN NaN
          ELSE IF c = "Cu" THEN Num(20000) ELSE Num(3000)]],
      [c \in {"Cu", "Zn"} |-> [r \in 1..NSamples |->
          IF c = "Zn" /\ r = 2 THEN NaN
          ELSE IF c = "Cu" THEN Num(20000) ELSE Num(3000)]] }

\* A process that makes calls of reemplazar_lod_lrem (multRepl
\* initialisation) with one table, one limit mapping and the same options
InitLremSession ==
    /\ pc = "lrem"
    /\ df \in LremSessionTables
    /\ df_in = df
    /\ lod_info = <<[col |-> "Cu", lod |-> 10000], [col |-> "Zn", lod |-> 1500]>>
    /\ opts \in {[metodo |-> "lrem", kw |-> "direct", entry |-> "lrem",
                  tolerance |-> 1, max_iter |-> mi, frac |-> FracDefault,
                  ini_method |-> "multRepl"] : mi \in 1..2}
    /\ df_coords = CoordsNone
    /\ df_resultado = df
    /\ log_reemplazos = <<>>
    /\ col_i = 1
    /\ loopst = NoLoop
    /\ em = NewEm
    /\ exc = ""
    /\ rng = RngUnknown
    /\ ret = <<>>

\* calls of reemplazar_lod_lrem the session has completed
LremCalls == {i \in 1..Len(ret) : ret[i].outcome = "returned"}

\* calls of reemplazar_lod_simple the session has made in between
SimpleBetween == {i \in 1..Len(ret) : ret[i].outcome = "simple"}

\* the caller keeps what the call returned and makes the same call again
LremAgain ==
    /\ pc = "returned"
    /\ Cardinality(LremCalls) < MaxCalls - 1
    /\ ret' = Append(ret, [outcome |-> "returned",
                           tabla |-> df_resultado,
                           log |-> log_reemplazos])
    /\ pc' = "lrem"
    /\ df_in' = df
    /\ df_resultado' = df
    /\ log_reemplazos' = <<>>
    /\ em' = NewEm
    /\ UNCHANGED <<df, lod_info, opts, df_coords, col_i, loopst, exc, rng>>

\* before a call of the EM engine the caller runs reemplazar_lod_simple on
\* some other table: np.random.seed(42), then the draws of its columns
SimpleBefore ==
    /\ pc = "lrem"
    /\ Cardinality(SimpleBetween) < MaxCalls - 1
    /\ \E n \in 1..2 : \E f \in RngOutputs(Seed42(rng), n) :
          rng' = RngAfter(Seed42(rng), f)
    /\ ret' = Append(ret, [outcome |-> "simple"])
    /\ UNCHANGED <<pc, df_in, df, lod_info, opts, df_coords, df_resultado,
                   log_reemplazos, col_i, loopst, em, exc>>

NextLremSession ==
    \/ LremStart \/ LremIter \/ LremFinish
    \/ LremAgain
    \/ SimpleBefore

SpecLremSession == InitLremSession /\ [][NextLremSession]_vars

-----------------------------------------------------------------------------
(* C30 *)

\* C30: two calls of reemplazar_lod_lrem (multRepl initialisation) with
\* equal table, limit mapping and options return equal tables and logs,
\* whatever calls preceded each of them, a call of the simple engine (which
\* reseeds the shared generator) included.
C30_LremDeterministic ==
    pc = "returned" =>
        \A i \in LremCalls :
            /\ ret[i].tabla = df_resultado
            /\ ret[i].log = log_reemplazos

=============================================================================
